---------------------------- MODULE Spec2Model ----------------------------
(***************************************************************************)
(* Headless texture rendering example (examples/textureimageheadless).     *)
(*                                                                         *)
(* The host program is single threaded: main constructs one RenderImage,   *)
(* whose constructor calls the set-up functions in a fixed order, and the  *)
(* destructor runs when main returns.  Each source function is one action  *)
(* that executes the function's next statement; a statement is a record    *)
(* naming the API call, the object it acts on and the source line.  The    *)
(* GPU is a second process: it executes the submitted command buffer and   *)
(* signals the fence.  The clock is a third: it lets a fence wait expire.  *)
(***************************************************************************)
EXTENDS Integers, Sequences, FiniteSets, TLC

VARIABLES
  argv,          \* command line: [help, use_vertex]
  env,           \* the machine: [memoryTypes, typeBits, layer]
  vertices,      \* host bytes of the vertex upload
  indices,       \* host bytes of the index upload
  stack,         \* call stack, innermost frame last: [fn, ip]
  status,        \* "running" | "fatal" | "exited"
  fields,        \* member fields of RenderImage that the run reads back
  live,          \* handles created and not yet released
  released,      \* handle -> number of times it was released
  misused,       \* handles used or released while not live
  allocs,        \* memory handle -> [index, type_bits, properties]
  bound,         \* buffer or image -> memory handle bound to it
  mem_data,      \* memory handle -> bytes the device sees in it
  cmds,          \* command buffer -> recorded commands
  cb_state,      \* command buffer -> "recording" | "executable" | "pending"
  pending,       \* command buffers submitted and not yet executed, with fence
  fence_state,   \* fence -> "unsignaled" | "signaled"
  elapsed,       \* clock ticks spent in the current fence wait
  image_layout,  \* image -> layout on the device
  submitted_layout, \* image -> new layout of the last submitted barrier
  descriptor,    \* what vkUpdateDescriptorSets wrote, <<>> before
  submits,       \* command buffers in submission order
  buffer_info,   \* buffer -> [usage, size] it was created with
  log            \* host statements executed, in order: <<op, obj>>

vars == <<argv, env, vertices, indices, stack, status, fields, live, released,
          misused, allocs, bound, mem_data, cmds, cb_state, pending,
          fence_state, elapsed, image_layout, submitted_layout, descriptor,
          submits, buffer_info, log>>

hostVars == <<argv, env, vertices, indices>>

(***************************************************************************)
(* Bounds of the model.                                                    *)
(***************************************************************************)
MaxUploadSize == 2       \* longest host byte sequence uploaded
MaxMemTypes == 2         \* longest memory-type list of getMemoryTypeIndex's check
MaxDevices == 2          \* most physical devices enumerated
MaxFamilies == 2         \* most queue families of a physical device
MaxWidth == 3            \* widest image written by the file writer's check
MaxHeight == 3           \* tallest image written by the file writer's check
MaxPadding == 2          \* most bytes of a row beyond its width * 4 pixel bytes
MaxOffset == 1           \* largest offset of the first row in the mapped memory
FlushTimeoutTicks == 1   \* clock ticks that make up DEFAULT_FENCE_TIMEOUT
SubmitTimeoutTicks == 2  \* clock ticks that make up UINT64_MAX nanoseconds
MaxRecorded == 2         \* most commands in the buffer handed to flushCommandBuffer

Bytes == {0, 1}

(***************************************************************************)
(* Vulkan values the program passes.                                       *)
(***************************************************************************)
VK_MEMORY_PROPERTY_DEVICE_LOCAL_BIT == 1
VK_MEMORY_PROPERTY_HOST_VISIBLE_BIT == 2
VK_MEMORY_PROPERTY_HOST_COHERENT_BIT == 4

HostVisibleCoherent ==
  VK_MEMORY_PROPERTY_HOST_VISIBLE_BIT + VK_MEMORY_PROPERTY_HOST_COHERENT_BIT

AllFlags ==
  VK_MEMORY_PROPERTY_DEVICE_LOCAL_BIT + HostVisibleCoherent

UNDEFINED == "VK_IMAGE_LAYOUT_UNDEFINED"
GENERAL == "VK_IMAGE_LAYOUT_GENERAL"
TRANSFER_SRC == "VK_IMAGE_LAYOUT_TRANSFER_SRC_OPTIMAL"
TRANSFER_DST == "VK_IMAGE_LAYOUT_TRANSFER_DST_OPTIMAL"
SHADER_READ_ONLY == "VK_IMAGE_LAYOUT_SHADER_READ_ONLY_OPTIMAL"

TRANSFER_WRITE == "VK_ACCESS_TRANSFER_WRITE_BIT"
SHADER_READ == "VK_ACCESS_SHADER_READ_BIT"
MEMORY_READ == "VK_ACCESS_MEMORY_READ_BIT"

(***************************************************************************)
(* Bit arithmetic on flag words.                                           *)
(***************************************************************************)
RECURSIVE BitAnd(_, _)
BitAnd(a, b) ==
  IF a = 0 \/ b = 0 THEN 0
  ELSE (a % 2) * (b % 2) + 2 * BitAnd(a \div 2, b \div 2)

RECURSIVE Pow2(_)
Pow2(n) == IF n = 0 THEN 1 ELSE 2 * Pow2(n - 1)

BoundedSeq(S, n) == UNION {[1..k -> S] : k \in 1..n}

(***************************************************************************)
(* getMemoryTypeIndex: the loop over the device's memory types.  The list  *)
(* is 1-based here, so memoryTypes[i + 1] is the code's memoryTypes[i].    *)
(***************************************************************************)
RECURSIVE getMemoryTypeIndexNoShift(_, _, _, _)
getMemoryTypeIndexNoShift(memoryTypes, i, type_bits, properties) ==
  IF i >= Len(memoryTypes) THEN 0
  ELSE IF type_bits % 2 = 1
          /\ BitAnd(memoryTypes[i + 1], properties) = properties
       THEN i
       ELSE getMemoryTypeIndexNoShift(memoryTypes, i + 1, type_bits, properties)

RECURSIVE getMemoryTypeIndexFrom(_, _, _, _)
getMemoryTypeIndexFrom(memoryTypes, i, type_bits, properties) ==
  IF i >= Len(memoryTypes) THEN 0
  ELSE IF type_bits % 2 = 1
          /\ BitAnd(memoryTypes[i + 1], properties) = properties
       THEN i
       ELSE getMemoryTypeIndexFrom(memoryTypes, i + 1, type_bits \div 2, properties)

getMemoryTypeIndexOf(memoryTypes, type_bits, properties) ==
  getMemoryTypeIndexFrom(memoryTypes, 0, type_bits, properties)

getMemoryTypeIndex(type_bits, properties) ==
  getMemoryTypeIndexOf(env.memoryTypes, type_bits, properties)

\* Memory type i of the list is allowed by type_bits and has the properties.
Qualifies(memoryTypes, i, type_bits, properties) ==
  /\ i < Len(memoryTypes)
  /\ (type_bits \div Pow2(i)) % 2 = 1
  /\ BitAnd(memoryTypes[i + 1], properties) = properties

(***************************************************************************)
(* Statements.  op names the API call, obj the handle it acts on, arg its  *)
(* operand, chk whether the call sits in VK_CHECK_RESULT (or throws), and  *)
(* line the source line.                                                   *)
(***************************************************************************)
I(op, obj, arg, chk, line) ==
  [op |-> op, obj |-> obj, arg |-> arg, chk |-> chk, line |-> line]

Create(obj, deps, line) == I("create", obj, deps, TRUE, line)
CreateUnchecked(obj, deps, line) == I("create", obj, deps, FALSE, line)
CreateFence(obj, line) == I("createFence", obj, {}, TRUE, line)
CreateImage(obj, line) == I("createImage", obj, {}, TRUE, line)
CreateBuffer(obj, usage, size, line) ==
  I("createBuffer", obj, [usage |-> usage, size |-> size], TRUE, line)
Destroy(obj, line) == I("destroy", obj, {}, FALSE, line)
Allocate(mem, properties, line) == I("alloc", mem, properties, TRUE, line)
Bind(obj, mem, line) == I("bind", obj, mem, TRUE, line)
Map(mem, line) == I("map", mem, {}, TRUE, line)
MapCopy(mem, data, line) == I("memcpy", mem, data, FALSE, line)
Unmap(mem, line) == I("unmap", mem, {}, FALSE, line)
AllocCmd(cb, line) == I("allocCmd", cb, {"command_pool"}, TRUE, line)
Begin(cb, line) == I("begin", cb, {}, TRUE, line)
End(cb, line) == I("end", cb, {}, TRUE, line)
Cmd(cb, command, line) == I("cmd", cb, command, FALSE, line)
Submit(cb, fence, line) == I("submit", cb, fence, TRUE, line)
Wait(fence, timeout, line) == I("wait", fence, timeout, TRUE, line)
Idle(what, line) == I("idle", what, {}, FALSE, line)
FreeCmd(cb, line) == I("free", cb, {}, FALSE, line)
Set(field, value, line) == I("set", field, value, FALSE, line)
Host(what, chk, line) == I("host", what, {}, chk, line)
Call(fn, line) == I("call", fn, {}, FALSE, line)
\* A descriptor update that is left out
UpdateSkipped(set, reads, line) == I("set", "writeDescriptorSets", reads, FALSE, line)

Update(set, reads, line) == I("update", set, reads, FALSE, line)

\* A recorded command: its name, the handles it references, its parameters.
Command(c, refs, p) == [c |-> c, refs |-> refs, p |-> p]

CreationOps ==
  {"create", "createFence", "createImage", "createBuffer", "alloc", "allocCmd"}
ReleaseOps == {"destroy", "free"}

InstanceLevel == {"instance", "debug_report_callback"}

\* The object a handle was created from and dies with.
Parent(obj) ==
  IF obj = "instance" THEN {}
  ELSE IF obj \in InstanceLevel \cup {"device"} THEN {"instance"}
  ELSE {"device"}

\* Handles the commands of a command buffer reference, with their memory.
CmdRefs(cb) ==
  LET direct == UNION {cmds[cb][k].refs : k \in 1..Len(cmds[cb])}
  IN  direct \cup {bound[o] : o \in direct \cap DOMAIN bound}

\* Handles a statement needs alive.
Uses(ins) ==
  CASE ins.op \in {"create", "createFence", "createImage"} ->
         Parent(ins.obj) \cup ins.arg
    [] ins.op \in {"alloc", "createBuffer"} -> {"device"}
    [] ins.op = "allocCmd" -> {"device"} \cup ins.arg
    [] ins.op \in ReleaseOps -> {ins.obj} \cup Parent(ins.obj)
    [] ins.op = "bind" -> {"device", ins.obj, ins.arg}
    [] ins.op \in {"map", "memcpy", "unmap"} -> {"device", ins.obj}
    [] ins.op \in {"begin", "end"} -> {ins.obj}
    [] ins.op = "cmd" -> {ins.obj} \cup ins.arg.refs
    [] ins.op = "submit" -> {"device", ins.obj, ins.arg} \cup CmdRefs(ins.obj)
    [] ins.op = "wait" -> {"device", ins.obj}
    [] ins.op = "idle" -> {"device"}
    [] ins.op = "update" -> {"device", ins.obj} \cup ins.arg
    [] OTHER -> {}

(***************************************************************************)
(* The device's execution of a command buffer.                             *)
(***************************************************************************)
DataOf(data, bnd, obj) ==
  IF obj \in DOMAIN bnd /\ bnd[obj] \in DOMAIN data THEN data[bnd[obj]] ELSE <<>>

\* dst after its first `size` bytes were overwritten by those of src
CopyBytes(src, dst, size) ==
  LET n == IF size <= Len(src) THEN size ELSE Len(src)
  IN  SubSeq(src, 1, n) \o SubSeq(dst, n + 1, Len(dst))

ExecCommand(c, st) ==
  CASE c.c = "vkCmdCopyBuffer" /\ c.p.dst \in DOMAIN bound ->
         [st EXCEPT !.data = [m \in DOMAIN @ |->
            IF m = bound[c.p.dst]
            THEN CopyBytes(DataOf(st.data, bound, c.p.src), @[m], c.p.size)
            ELSE @[m]]]
    [] c.c \in {"vkCmdCopyBufferToImage", "vkCmdCopyImage"}
       /\ c.p.dst \in DOMAIN bound ->
         [st EXCEPT !.data = [m \in DOMAIN @ |->
            IF m = bound[c.p.dst]
            THEN DataOf(st.data, bound, c.p.src)
            ELSE @[m]]]
    [] c.c = "vkCmdPipelineBarrier" ->
         [st EXCEPT !.layout = [i \in DOMAIN @ |->
            IF i = c.p.image THEN c.p.newLayout ELSE @[i]]]
    [] c.c = "vkCmdEndRenderPass" ->
         [st EXCEPT
            !.layout = [i \in DOMAIN @ |->
               IF i \in DOMAIN c.p.finalLayout THEN c.p.finalLayout[i] ELSE @[i]],
            !.data = [m \in DOMAIN @ |->
               IF \E i \in DOMAIN c.p.store : i \in DOMAIN bound /\ bound[i] = m
               THEN c.p.store[CHOOSE i \in DOMAIN c.p.store :
                                i \in DOMAIN bound /\ bound[i] = m]
               ELSE @[m]]]
    [] OTHER -> st

RECURSIVE ExecCommands(_, _)
ExecCommands(cs, st) ==
  IF cs = <<>> THEN st ELSE ExecCommands(Tail(cs), ExecCommand(Head(cs), st))

\* The layouts the barriers of a command sequence leave as "last submitted".
RECURSIVE SubmitLayouts(_, _)
SubmitLayouts(cs, lay) ==
  IF cs = <<>> THEN lay
  ELSE SubmitLayouts(Tail(cs),
         IF Head(cs).c = "vkCmdPipelineBarrier"
         THEN [i \in DOMAIN lay |->
                 IF i = Head(cs).p.image THEN Head(cs).p.newLayout ELSE lay[i]]
         ELSE lay)

(***************************************************************************)
(* The helper functions, as the statements a call to them executes.        *)
(***************************************************************************)
\* createBuffer without the vkUnmapMemory of line 1653
createBufferNoUnmap(usage_flags, memory_property_flags, buffer, memory, size, data) ==
  <<CreateBuffer(buffer, usage_flags, size, 1639),
    Allocate(memory, memory_property_flags, 1647)>>
  \o (IF data # <<>>
      THEN <<Map(memory, 1651), MapCopy(memory, data, 1652)>>
      ELSE <<>>)
  \o <<Bind(buffer, memory, 1656)>>

\* createBuffer(usage_flags, memory_property_flags, buffer, memory, size,
\* data); data = <<>> is the null pointer.
createBuffer(usage_flags, memory_property_flags, buffer, memory, size, data) ==
  <<CreateBuffer(buffer, usage_flags, size, 1639),
    Allocate(memory, memory_property_flags, 1647)>>
  \o (IF data # <<>>
      THEN <<Map(memory, 1651), MapCopy(memory, data, 1652), Unmap(memory, 1653)>>
      ELSE <<>>)
  \o <<Bind(buffer, memory, 1656)>>

\* submitWork without the fence wait
submitWorkNoWait(cmd_buffer, fence) ==
  <<CreateFence(fence, 1670),
    Submit(cmd_buffer, fence, 1671),
    Destroy(fence, 1673)>>

\* submitWork with the result of vkWaitForFences ignored
submitWorkUncheckedWait(cmd_buffer, fence) ==
  <<CreateFence(fence, 1670),
    Submit(cmd_buffer, fence, 1671),
    I("wait", fence, SubmitTimeoutTicks, FALSE, 1672),
    Destroy(fence, 1673)>>

\* submitWork(cmd_buffer, queue); fence names the VkFence of this call.
submitWork(cmd_buffer, fence) ==
  <<CreateFence(fence, 1670),
    Submit(cmd_buffer, fence, 1671),
    Wait(fence, SubmitTimeoutTicks, 1672),
    Destroy(fence, 1673)>>

\* flushCommandBuffer without the fence wait
flushCommandBufferNoWait(command_buffer, fence, free) ==
  IF command_buffer = "VK_NULL_HANDLE" THEN <<>>
  ELSE <<End(command_buffer, 1596),
         CreateFence(fence, 1604),
         Submit(command_buffer, fence, 1606),
         Destroy(fence, 1609)>>
       \o (IF free THEN <<FreeCmd(command_buffer, 1612)>> ELSE <<>>)

\* flushCommandBuffer(command_buffer, queue, pool, free)
flushCommandBuffer(command_buffer, fence, free) ==
  IF command_buffer = "VK_NULL_HANDLE" THEN <<>>
  ELSE <<End(command_buffer, 1596),
         CreateFence(fence, 1604),
         Submit(command_buffer, fence, 1606),
         Wait(fence, FlushTimeoutTicks, 1608),
         Destroy(fence, 1609)>>
       \o (IF free THEN <<FreeCmd(command_buffer, 1612)>> ELSE <<>>)

\* createCommandBuffer(level, pool, begin)
createCommandBufferFrom(cmd_buffer, begin) ==
  <<AllocCmd(cmd_buffer, 1579)>>
  \o (IF begin THEN <<Begin(cmd_buffer, 1584)>> ELSE <<>>)

\* The barrier structure reused with the source access of the first barrier
BarrierStaleSrcAccess(image, srcAccessMask, dstAccessMask, oldLayout, newLayout) ==
  Command("vkCmdPipelineBarrier", {image},
          [image |-> image, srcAccessMask |-> {},
           dstAccessMask |-> dstAccessMask, oldLayout |-> oldLayout,
           newLayout |-> newLayout])

\* One image memory barrier recorded by vkCmdPipelineBarrier.
Barrier(image, srcAccessMask, dstAccessMask, oldLayout, newLayout) ==
  Command("vkCmdPipelineBarrier", {image},
          [image |-> image, srcAccessMask |-> srcAccessMask,
           dstAccessMask |-> dstAccessMask, oldLayout |-> oldLayout,
           newLayout |-> newLayout])

CopyBuffer(src, dst, size) ==
  Command("vkCmdCopyBuffer", {src, dst}, [src |-> src, dst |-> dst, size |-> size])

\* The decoded texture: tex_width * tex_height * 4 bytes of a 1 x 1 image.
pixels == <<0, 1, 1, 0>>

\* sizeof(UniformBufferObject) in 4-byte words: two mat4, a vec4, a float.
sizeofUniformBufferObject == 37

\* The words of ubo_scene as the constructor sets them (lines 84-87).
ubo_scene == [k \in 1..sizeofUniformBufferObject |-> 10 + k]

\* The members of RenderImage from uniform_buffer_modelview on: the two
\* 64-bit handles uniform_buffer_modelview and uniform_buffer_memory, then
\* ubo_scene (textureimageheadless.h, lines 44-54).
membersFromUniformBuffer == <<1, 2, 3, 4>> \o ubo_scene

\* The words at &uniform_buffer_modelview, the data pointer of line 1004.
uniformBufferBytes == SubSeq(membersFromUniformBuffer, 1, sizeofUniformBufferObject)

(***************************************************************************)
(* The image file of saveFramebufferImage (lines 484-517).  The file is    *)
(* its header, a sequence of characters, followed by its pixel bytes; a    *)
(* pixel byte is written as the offset in the mapped memory it is read     *)
(* from.                                                                   *)
(***************************************************************************)
\* The size the constructor is called with.
width == 640
height == 512

Digit(d) == <<"0", "1", "2", "3", "4", "5", "6", "7", "8", "9">>[d + 1]

\* operator<< of an integer: its decimal digits, most significant first.
RECURSIVE Decimal(_)
Decimal(n) ==
  IF n < 10 THEN <<Digit(n)>> ELSE Decimal(n \div 10) \o <<Digit(n % 10)>>

ppmHeader(width_, height_) ==
  <<"P", "6", "\n">> \o Decimal(width_) \o <<"\n">> \o Decimal(height_)
    \o <<"\n">> \o Decimal(255) \o <<"\n">>

formatsBGR ==
  {"VK_FORMAT_B8G8R8A8_SRGB", "VK_FORMAT_B8G8R8A8_UNORM", "VK_FORMAT_B8G8R8A8_SNORM"}

color_swizzleBGR == "VK_FORMAT_B8G8R8A8_UNORM" \in formatsBGR

color_swizzle == "VK_FORMAT_R8G8B8A8_UNORM" \in formatsBGR

ppmPixelRGBA(row, swizzle) == <<row, row + 1, row + 2, row + 3>>

\* The bytes written for the pixel at row (lines 505-512).
ppmPixel(row, swizzle) ==
  IF swizzle THEN <<row + 2, row + 1, row>> ELSE <<row, row + 1, row + 2>>

\* The inner loop: row++ advances an unsigned int pointer, 4 bytes.
RECURSIVE ppmRow(_, _, _, _)
ppmRow(row, x, width_, swizzle) ==
  IF x >= width_ THEN <<>>
  ELSE ppmPixel(row, swizzle) \o ppmRow(row + 4, x + 1, width_, swizzle)

imagedataAtBase(layout) == 0

\* imagedata += sub_resource_layout.offset, the mapping starts at 0.
imagedataStart(layout) == 0 + layout.offset

\* The outer loop: imagedata += sub_resource_layout.rowPitch after each row.
RECURSIVE ppmRows(_, _, _, _, _, _)
ppmRows(imagedata, y, width_, height_, rowPitch, swizzle) ==
  IF y >= height_ THEN <<>>
  ELSE ppmRow(imagedata, 0, width_, swizzle)
         \o ppmRows(imagedata + rowPitch, y + 1, width_, height_, rowPitch, swizzle)

ppmFile(width_, height_, layout) ==
  [header |-> ppmHeader(width_, height_),
   pixels |-> ppmRows(imagedataStart(layout), 0, width_, height_,
                      layout.rowPitch, color_swizzle)]

(***************************************************************************)
(* The functions of the run, as statement lists.                           *)
(***************************************************************************)
use_textureInverted == argv.use_vertex

use_texture == ~argv.use_vertex

\* main without the test of the help flag
mainBodyIgnoringHelp ==
  <<Host("parse", FALSE, 1682),
    Call("RenderImage", 1689),
    Host("Finished", FALSE, 1693),
    Call("~RenderImage", 1694)>>

mainBody ==
  <<Host("parse", FALSE, 1682)>>
  \o (IF argv.help
      THEN <<Host("printHelp", FALSE, 1684),
             Host("std::cin.get", FALSE, 1685)>>
      ELSE <<Call("RenderImage", 1689),
             Host("Finished", FALSE, 1693),
             Call("~RenderImage", 1694)>>)

\* The constructor with the attachments created before the uploads
RenderImageBodyAttachmentsFirst ==
  <<Call("createInstance", 70), Call("setupDebugMessenger", 71),
    Call("pickPhysicalDevice", 72), Call("createLogicalDevice", 73),
    Call("createCommandPool", 74), Call("createFramebufferAttachments", 97)>>
  \o (IF ~argv.use_vertex
      THEN <<Call("loadTextureFromFile", 89),
             Call("prepareTextureVertexAndIndexBuffers", 90)>>
      ELSE <<Call("prepareSimpleVertexAndIndexBuffers", 93)>>)
  \o <<Call("createRenderPass", 98)>>
  \o (IF ~argv.use_vertex
      THEN <<Call("prepareGraphicsPipelineTexture", 100),
             Call("createCommandBufferTexture", 101)>>
      ELSE <<Call("prepareGraphicsPipelineSimple", 103),
             Call("createCommandBuffer", 104)>>)
  \o <<Call("saveFramebufferImage", 106)>>

RenderImageBody ==
  <<Call("createInstance", 70), Call("setupDebugMessenger", 71),
    Call("pickPhysicalDevice", 72), Call("createLogicalDevice", 73),
    Call("createCommandPool", 74)>>
  \o (IF use_texture
      THEN <<Set("ubo_scene", "camera", 84),
             Call("loadTextureFromFile", 89),
             Call("prepareTextureVertexAndIndexBuffers", 90)>>
      ELSE <<Call("prepareSimpleVertexAndIndexBuffers", 93)>>)
  \o <<Call("createFramebufferAttachments", 97), Call("createRenderPass", 98)>>
  \o (IF use_texture
      THEN <<Call("prepareGraphicsPipelineTexture", 100),
             Call("createCommandBufferTexture", 101)>>
      ELSE <<Call("prepareGraphicsPipelineSimple", 103),
             Call("createCommandBuffer", 104)>>)
  \o <<Call("saveFramebufferImage", 106)>>

\* #define DEBUG (!NDEBUG), line 33: a build defines NDEBUG or does not.
DEBUG == ~("NDEBUG" \in DOMAIN env /\ env.NDEBUG)

createInstanceBody ==
  (IF DEBUG
   THEN <<Set("instance_layers",
              IF env.layer THEN {"VK_LAYER_KHRONOS_validation"} ELSE {}, 134),
          Set("layers_available",
              "VK_LAYER_KHRONOS_validation" \in fields["instance_layers"], 136),
          Set("instance_create_info",
              IF fields["layers_available"]
              THEN [ppEnabledLayerNames |-> {"VK_LAYER_KHRONOS_validation"},
                    ppEnabledExtensionNames |-> {"VK_EXT_debug_report"}]
              ELSE [ppEnabledLayerNames |-> {}, ppEnabledExtensionNames |-> {}],
              153)>>
   ELSE <<Set("instance_create_info",
              [ppEnabledLayerNames |-> {}, ppEnabledExtensionNames |-> {}], 160)>>)
  \o <<Create("instance", {}, 162)>>

\* setupDebugMessenger without the test of layers_available
setupDebugMessengerBodyAlways ==
  IF DEBUG THEN <<Create("debug_report_callback", {}, 178)>> ELSE <<>>

setupDebugMessengerBody ==
  IF DEBUG /\ fields["layers_available"]
  THEN <<Create("debug_report_callback", {}, 178)>>
  ELSE <<>>

\* What the physical device reports: the samplerAnisotropy feature and the
\* limit maxSamplerAnisotropy; a machine that names neither has no
\* anisotropic filtering.
samplerAnisotropy == "samplerAnisotropy" \in DOMAIN env /\ env.samplerAnisotropy

maxSamplerAnisotropy ==
  IF "maxSamplerAnisotropy" \in DOMAIN env THEN env.maxSamplerAnisotropy ELSE 1

\* physical_devices[0]: element 0 of an empty vector does not exist, the
\* read crashes or yields a handle that is no device.
pickPhysicalDeviceBody ==
  <<Host("vkEnumeratePhysicalDevices", TRUE, 190),
    Host("vkEnumeratePhysicalDevices", TRUE, 192),
    I("set", "physical_device", 0, env.devices = <<>>, 193),
    Set("device_properties", [maxSamplerAnisotropy |-> maxSamplerAnisotropy], 195),
    Set("device_features", [samplerAnisotropy |-> samplerAnisotropy], 197)>>

\* The queue families vkGetPhysicalDeviceQueueFamilyProperties reports for
\* physical_device; none for a handle that is no device.
queue_family_properties ==
  IF fields["physical_device"] \in 0..(Len(env.devices) - 1)
  THEN env.devices[fields["physical_device"] + 1]
  ELSE <<>>

\* The loop of lines 210-219: the index the loop breaks at, the number of
\* families when it runs to its end.
RECURSIVE graphicsFamilyFrom(_, _)
graphicsFamilyFrom(families, i) ==
  IF i >= Len(families) THEN Len(families)
  ELSE IF families[i + 1] THEN i
       ELSE graphicsFamilyFrom(families, i + 1)

createLogicalDeviceBody ==
  LET i == graphicsFamilyFrom(queue_family_properties, 0)
  IN  <<Set("queue_create_info", [queueFamilyIndex |-> 0, queueCount |-> 0], 203)>>
      \o (IF i < Len(queue_family_properties)
          THEN <<Set("queue_family_index", i, 212),
                 Set("queue_create_info",
                     [queueFamilyIndex |-> i, queueCount |-> 1], 214)>>
          ELSE <<>>)
      \o <<Set("device_create_info",
               [physical_device |-> fields["physical_device"],
                queueCreateInfoCount |-> 1,
                pQueueCreateInfos |-> fields["queue_create_info"],
                \* never assigned: the null pointer enables no feature
                pEnabledFeatures |-> {}], 225),
           Create("device", {}, 230),
           Set("queue", [queueFamilyIndex |-> fields["queue_family_index"],
                         queueIndex |-> 0], 233)>>

createCommandPoolBody ==
  <<Set("cmd_pool_info",
        [queueFamilyIndex |-> fields["queue_family_index"],
         flags |-> {"VK_COMMAND_POOL_CREATE_RESET_COMMAND_BUFFER_BIT"}], 239),
    Create("command_pool", {}, 241)>>

\* Line 1289 initialises force_linear_tiling to false; a configuration that
\* forces linear tiling is a machine with the field set.
force_linear_tiling ==
  "force_linear_tiling" \in DOMAIN env /\ env.force_linear_tiling

\* use_staging (1286-1297): true unless linear tiling is forced and the
\* format's linearTilingFeatures have VK_FORMAT_FEATURE_SAMPLED_IMAGE_BIT.
use_staging ==
  IF force_linear_tiling THEN ~env.linearTilingSampled ELSE TRUE

\* The branch of loadTextureFromFile taken when use_staging holds (1302-1478).
stagedTextureUpload ==
  <<CreateBuffer("staging_buffer@tex", {"TRANSFER_SRC"}, Len(pixels), 1321),
    Allocate("staging_memory@tex", HostVisibleCoherent, 1341),
    Bind("staging_buffer@tex", "staging_memory@tex", 1342),
    Map("staging_memory@tex", 1346),
    MapCopy("staging_memory@tex", pixels, 1352),
    Unmap("staging_memory@tex", 1353),
    CreateImage("texture.image", 1387),
    Allocate("texture.deviceMemory", VK_MEMORY_PROPERTY_DEVICE_LOCAL_BIT, 1397),
    Bind("texture.image", "texture.deviceMemory", 1401)>>
  \o createCommandBufferFrom("copy_cmd@tex", TRUE)
  \o <<Cmd("copy_cmd@tex",
           Barrier("texture.image", {}, {TRANSFER_WRITE}, UNDEFINED, TRANSFER_DST),
           1433),
       Cmd("copy_cmd@tex",
           Command("vkCmdCopyBufferToImage", {"staging_buffer@tex", "texture.image"},
                   [src |-> "staging_buffer@tex", dst |-> "texture.image",
                    dstImageLayout |-> TRANSFER_DST]),
           1443),
       Cmd("copy_cmd@tex",
           Barrier("texture.image", {TRANSFER_WRITE}, {SHADER_READ},
                   TRANSFER_DST, SHADER_READ_ONLY),
           1460),
       Set("texture.imageLayout", SHADER_READ_ONLY, 1470)>>
  \o flushCommandBuffer("copy_cmd@tex", "fence@tex", TRUE)
  \o <<Destroy("staging_memory@tex", 1476),
       Destroy("staging_buffer@tex", 1477)>>

\* loadTextureFromFile after the decoded pixels have been tested (1279-1537).
textureUploadBody ==
  <<Set("texture.mipLevels", 1, 1283)>>
  \o (IF use_staging
      THEN stagedTextureUpload
      ELSE <<Host("Not using staging", FALSE, 1480)>>)
  \o <<Host("stbi_image_free", FALSE, 1483),
       Set("sampler",
           IF fields["device_features"].samplerAnisotropy
           THEN [anisotropyEnable |-> TRUE,
                 maxAnisotropy |-> fields["device_properties"].maxSamplerAnisotropy]
           ELSE [anisotropyEnable |-> FALSE, maxAnisotropy |-> 1], 1505),
       Create("texture.sampler", {}, 1515),
       Create("texture.view", {"texture.image"}, 1536)>>

\* The pixels tested after the staging buffer has been created
loadTextureFromFileBodyLateCheck ==
  SubSeq(textureUploadBody, 1, 2)
  \o <<Host("stbi_load", TRUE, 1268)>>
  \o SubSeq(textureUploadBody, 3, Len(textureUploadBody))

\* stbi_load returns null for a file that is missing or cannot be decoded;
\* the runtime_error thrown at line 1276 is caught nowhere.
loadTextureFromFileBody ==
  <<Host("stbi_load", TRUE, 1268)>> \o textureUploadBody

prepareSimpleVertexAndIndexBuffersBody ==
  <<AllocCmd("copy_cmd@geom", 549)>>
  \o createBuffer({"TRANSFER_SRC"}, HostVisibleCoherent,
                  "staging_buffer@vtx", "staging_memory@vtx", Len(vertices), vertices)
  \o createBuffer({"VERTEX_BUFFER", "TRANSFER_DST"}, VK_MEMORY_PROPERTY_DEVICE_LOCAL_BIT,
                  "vertex_buffer", "vertex_memory", Len(vertices), <<>>)
  \o <<Begin("copy_cmd@geom", 570),
       Cmd("copy_cmd@geom",
           CopyBuffer("staging_buffer@vtx", "vertex_buffer", Len(vertices)), 573),
       End("copy_cmd@geom", 574)>>
  \o submitWork("copy_cmd@geom", "fence@vtx")
  \o <<Destroy("staging_buffer@vtx", 578),
       Destroy("staging_memory@vtx", 579)>>
  \o createBuffer({"TRANSFER_SRC"}, HostVisibleCoherent,
                  "staging_buffer@idx", "staging_memory@idx", Len(indices), indices)
  \o createBuffer({"INDEX_BUFFER", "TRANSFER_DST"}, VK_MEMORY_PROPERTY_DEVICE_LOCAL_BIT,
                  "index_buffer", "index_memory", Len(indices), <<>>)
  \o <<Begin("copy_cmd@geom", 597),
       Cmd("copy_cmd@geom",
           CopyBuffer("staging_buffer@idx", "index_buffer", Len(indices)), 599),
       End("copy_cmd@geom", 600)>>
  \o submitWork("copy_cmd@geom", "fence@idx")
  \o <<Destroy("staging_buffer@idx", 604),
       Destroy("staging_memory@idx", 605)>>

prepareTextureVertexAndIndexBuffersBody ==
  <<Set("index_buffer_count", Len(indices), 619),
    AllocCmd("copy_cmd@geom", 630)>>
  \o createBuffer({"TRANSFER_SRC"}, HostVisibleCoherent,
                  "staging_buffer@vtx", "staging_memory@vtx", Len(vertices), vertices)
  \o createBuffer({"VERTEX_BUFFER", "TRANSFER_DST"}, VK_MEMORY_PROPERTY_DEVICE_LOCAL_BIT,
                  "vertex_buffer", "vertex_memory", Len(vertices), <<>>)
  \o <<Begin("copy_cmd@geom", 651),
       Cmd("copy_cmd@geom",
           CopyBuffer("staging_buffer@vtx", "vertex_buffer", Len(vertices)), 654),
       End("copy_cmd@geom", 655)>>
  \o submitWork("copy_cmd@geom", "fence@vtx")
  \o <<Destroy("staging_buffer@vtx", 659),
       Destroy("staging_memory@vtx", 660)>>
  \o createBuffer({"TRANSFER_SRC"}, HostVisibleCoherent,
                  "staging_buffer@idx", "staging_memory@idx", Len(indices), indices)
  \o createBuffer({"INDEX_BUFFER", "TRANSFER_DST"}, VK_MEMORY_PROPERTY_DEVICE_LOCAL_BIT,
                  "index_buffer", "index_memory", Len(indices), <<>>)
  \o <<Begin("copy_cmd@geom", 678),
       Cmd("copy_cmd@geom",
           CopyBuffer("staging_buffer@idx", "index_buffer", Len(indices)), 680),
       End("copy_cmd@geom", 681)>>
  \o submitWork("copy_cmd@geom", "fence@idx")
  \o <<Destroy("staging_buffer@idx", 685),
       Destroy("staging_memory@idx", 686)>>

createFramebufferAttachmentsBody ==
  <<Set("color_format", "VK_FORMAT_R8G8B8A8_UNORM", 691),
    CreateImage("color_attachment.image", 709),
    Allocate("color_attachment.memory", VK_MEMORY_PROPERTY_DEVICE_LOCAL_BIT, 714),
    Bind("color_attachment.image", "color_attachment.memory", 718),
    Create("color_attachment.view", {"color_attachment.image"}, 733),
    Host("getSupportedDepthFormat", FALSE, 739),
    CreateImage("depth_attachment.image", 743),
    Allocate("depth_attachment.memory", VK_MEMORY_PROPERTY_DEVICE_LOCAL_BIT, 748),
    Bind("depth_attachment.image", "depth_attachment.memory", 749),
    Create("depth_attachment.view", {"depth_attachment.image"}, 767)>>

createRenderPassBody ==
  <<Create("render_pass", {}, 834),
    Create("framebuffer",
           {"render_pass", "color_attachment.view", "depth_attachment.view"}, 849)>>

\* Sizes in bytes: float, the vertex structures of the header, the formats
\* of the vertex attributes.
sizeofFloat == 4

\* struct SimpleVertex { float position[3]; float color[3]; }
sizeofSimpleVertex == sizeofFloat * 3 + sizeofFloat * 3

\* struct TextureVertex { float position[3]; float uv[2]; }, normal commented out
sizeofTextureVertex == sizeofFloat * 3 + sizeofFloat * 2

FormatSize(format) ==
  CASE format = "VK_FORMAT_R32G32B32_SFLOAT" -> 12
    [] format = "VK_FORMAT_R32G32_SFLOAT" -> 8

\* vertexInputAttributeDescription(binding, location, format, offset)
vertexInputAttributeDescription(binding, location, format, offset) ==
  [binding |-> binding, location |-> location, format |-> format, offset |-> offset]

\* The vertex input state of the untextured pipeline (946-969).
vertexInputSimple ==
  [stride |-> sizeofSimpleVertex,
   attributes |->
     <<vertexInputAttributeDescription(0, 0, "VK_FORMAT_R32G32B32_SFLOAT", 0),
       vertexInputAttributeDescription(0, 1, "VK_FORMAT_R32G32B32_SFLOAT",
                                       sizeofFloat * 3)>>]

\* The vertex input state of the textured pipeline (1145-1177).
vertexInputTexture ==
  [stride |-> sizeofTextureVertex,
   attributes |->
     <<vertexInputAttributeDescription(0, 0, "VK_FORMAT_R32G32B32_SFLOAT", 0),
       vertexInputAttributeDescription(0, 1, "VK_FORMAT_R32G32_SFLOAT",
                                       sizeofFloat * 3),
       vertexInputAttributeDescription(0, 2, "VK_FORMAT_R32G32B32_SFLOAT",
                                       sizeofFloat * 5)>>]

prepareGraphicsPipelineSimpleBody ==
  <<Create("descriptor_set_layout", {}, 869),
    Create("pipeline_layout", {}, 885),
    Create("pipeline_cache", {}, 892),
    Set("vertex_input_state", vertexInputSimple, 964),
    CreateUnchecked("shader_module@vert", {}, 985),
    CreateUnchecked("shader_module@frag", {}, 986),
    Set("shader_modules", {"shader_module@vert", "shader_module@frag"}, 987),
    Create("pipeline",
           {"pipeline_cache", "pipeline_layout", "render_pass",
            "shader_module@vert", "shader_module@frag"}, 988)>>

prepareGraphicsPipelineTextureBody ==
  createBuffer({"UNIFORM_BUFFER"}, HostVisibleCoherent,
               "uniform_buffer_modelview", "uniform_buffer_memory",
               Len(uniformBufferBytes), uniformBufferBytes)
  \o <<Create("descriptor_set_layout", {}, 1028),
       Create("pipeline_layout", {"descriptor_set_layout"}, 1038),
       Create("pipeline_cache", {}, 1048),
       CreateUnchecked("shader_module@vert", {}, 1104),
       CreateUnchecked("shader_module@frag", {}, 1109),
       Set("shader_modules", {"shader_module@vert", "shader_module@frag"}, 1111),
       Set("vertex_input_state", vertexInputTexture, 1172),
       Create("pipeline",
              {"pipeline_cache", "pipeline_layout", "render_pass",
               "shader_module@vert", "shader_module@frag"}, 1185),
       Set("descriptor_pool_info",
           [poolSizes |-> ("VK_DESCRIPTOR_TYPE_UNIFORM_BUFFER" :> 1)
                          @@ ("VK_DESCRIPTOR_TYPE_COMBINED_IMAGE_SAMPLER" :> 1),
            maxSets |-> 2], 1200),
       Create("descriptor_pool", {}, 1206),
       Create("descriptor_set", {"descriptor_pool", "descriptor_set_layout"}, 1220),
       Update("descriptor_set",
              {"uniform_buffer_modelview", "texture.view", "texture.sampler"}, 1252)>>

\* The commands both render command buffers start with.
renderPassBegin(cb, l) ==
  <<Cmd(cb, Command("vkCmdBeginRenderPass", {"render_pass", "framebuffer"}, <<>>), l),
    Cmd(cb, Command("vkCmdSetViewport", {}, <<>>), l + 7),
    Cmd(cb, Command("vkCmdSetScissor", {}, <<>>), l + 13)>>

\* The frame the draws of the render pass produce: one RGBA pixel.
renderedFrame == <<1, 0, 0, 1>>

\* The layouts the render pass leaves its attachments in (finalLayout) and
\* the attachments it stores (storeOp STORE).
renderPassEnd(cb, l) ==
  <<Cmd(cb, Command("vkCmdEndRenderPass", {},
                    [finalLayout |->
                       ("color_attachment.image" :> TRANSFER_SRC)
                       @@ ("depth_attachment.image" :>
                             "VK_IMAGE_LAYOUT_DEPTH_STENCIL_ATTACHMENT_OPTIMAL"),
                     store |-> ("color_attachment.image" :> renderedFrame)]), l)>>

bindGeometry(cb, l) ==
  <<Cmd(cb, Command("vkCmdBindVertexBuffers", {"vertex_buffer"}, <<>>), l),
    Cmd(cb, Command("vkCmdBindIndexBuffer", {"index_buffer"}, <<>>), l + 1)>>

\* An iteration that draws without pushing its matrix
drawWithoutPush(cb, v) ==
  <<Cmd(cb, Command("vkCmdDrawIndexed", {}, [indexCount |-> 3]), 308)>>

\* One iteration of the loop over pos: push the matrix, draw the triangle.
pushAndDraw(cb, v) ==
  <<Cmd(cb, Command("vkCmdPushConstants", {"pipeline_layout"}, [pos |-> v]), 302),
    Cmd(cb, Command("vkCmdDrawIndexed", {}, [indexCount |-> 3]), 308)>>

createCommandBufferBody ==
  <<AllocCmd("command_buffer@render", 250),
    Begin("command_buffer@render", 255)>>
  \o renderPassBegin("command_buffer@render", 270)
  \o <<Cmd("command_buffer@render",
           Command("vkCmdBindPipeline", {"pipeline"}, <<>>), 285)>>
  \o bindGeometry("command_buffer@render", 289)
  \o pushAndDraw("command_buffer@render", 1)
  \o pushAndDraw("command_buffer@render", 2)
  \o pushAndDraw("command_buffer@render", 3)
  \o renderPassEnd("command_buffer@render", 311)
  \o <<End("command_buffer@render", 313)>>
  \o submitWork("command_buffer@render", "fence@render")
  \o <<Idle("vkDeviceWaitIdle", 317)>>

createCommandBufferTextureBody ==
  <<AllocCmd("command_buffer@render", 327),
    Begin("command_buffer@render", 332)>>
  \o renderPassBegin("command_buffer@render", 347)
  \o <<Cmd("command_buffer@render",
           Command("vkCmdBindDescriptorSets", {"pipeline_layout", "descriptor_set"},
                   <<>>), 361),
       Cmd("command_buffer@render",
           Command("vkCmdBindPipeline", {"pipeline"}, <<>>), 369)>>
  \o bindGeometry("command_buffer@render", 373)
  \o <<Cmd("command_buffer@render",
           Command("vkCmdDrawIndexed", {},
                   [indexCount |-> fields["index_buffer_count"]]), 376)>>
  \o renderPassEnd("command_buffer@render", 378)
  \o <<End("command_buffer@render", 380)>>
  \o submitWork("command_buffer@render", "fence@render")
  \o <<Idle("vkDeviceWaitIdle", 384)>>

saveFramebufferImageBody ==
  <<CreateImage("dst_image", 405),
    Allocate("dst_image_memory", HostVisibleCoherent, 417),
    Bind("dst_image", "dst_image_memory", 418),
    AllocCmd("copy_cmd@save", 426),
    Begin("copy_cmd@save", 428),
    Cmd("copy_cmd@save",
        Barrier("dst_image", {}, {TRANSFER_WRITE}, UNDEFINED, TRANSFER_DST), 431),
    Cmd("copy_cmd@save",
        Command("vkCmdCopyImage", {"color_attachment.image", "dst_image"},
                [src |-> "color_attachment.image", srcImageLayout |-> TRANSFER_SRC,
                 dst |-> "dst_image", dstImageLayout |-> TRANSFER_DST,
                 extent |-> <<width, height, 1>>]), 453),
    Cmd("copy_cmd@save",
        Barrier("dst_image", {TRANSFER_WRITE}, {MEMORY_READ}, TRANSFER_DST, GENERAL),
        461),
    End("copy_cmd@save", 472)>>
  \o submitWork("copy_cmd@save", "fence@save")
  \o <<Host("vkGetImageSubresourceLayout", FALSE, 480),
       I("host", "vkMapMemory", "dst_image_memory", FALSE, 483),
       Host("write file", FALSE, 489),
       Set("color_swizzle", color_swizzle, 497),
       \* the bytes written for a pixel, as offsets from the pixel's first byte
       \* read through a pointer vkMapMemory did not assign, the loop
       \* crashes or writes bytes that are not the image's
       I("set", "file.pixel", ppmPixel(0, color_swizzle),
         fields["imagedata"] = "indeterminate", 505),
       Host("vkUnmapMemory", FALSE, 522),
       Destroy("dst_image_memory", 523),
       Destroy("dst_image", 524),
       Idle("vkQueueWaitIdle", 526)>>

RenderImageDtorBody ==
  <<Destroy("vertex_buffer", 1545),
    Destroy("vertex_memory", 1546),
    Destroy("index_buffer", 1547),
    Destroy("index_memory", 1548),
    Destroy("color_attachment.view", 1549),
    Destroy("color_attachment.image", 1550),
    Destroy("color_attachment.memory", 1551),
    Destroy("depth_attachment.view", 1552),
    Destroy("depth_attachment.image", 1553),
    Destroy("depth_attachment.memory", 1554),
    Destroy("render_pass", 1555),
    Destroy("framebuffer", 1556),
    Destroy("pipeline_layout", 1557),
    Destroy("descriptor_set_layout", 1558),
    Destroy("pipeline", 1559),
    Destroy("pipeline_cache", 1560),
    Destroy("command_pool", 1561),
    Destroy("shader_module@vert", 1563),
    Destroy("shader_module@frag", 1563),
    Destroy("device", 1565)>>
  \o (IF DEBUG /\ "debug_report_callback" \in DOMAIN released
      THEN <<Destroy("debug_report_callback", 1570)>>
      ELSE <<>>)
  \o <<Destroy("instance", 1573)>>

\* flushCommandBuffer as a function of its own, called with the arguments
\* the environment holds.
flushCommandBufferBody ==
  flushCommandBuffer(env.command_buffer, "fence@flush", env.free)

Body(fn) ==
  CASE fn = "main" -> mainBody
    [] fn = "RenderImage" -> RenderImageBody
    [] fn = "createInstance" -> createInstanceBody
    [] fn = "setupDebugMessenger" -> setupDebugMessengerBody
    [] fn = "pickPhysicalDevice" -> pickPhysicalDeviceBody
    [] fn = "createLogicalDevice" -> createLogicalDeviceBody
    [] fn = "createCommandPool" -> createCommandPoolBody
    [] fn = "loadTextureFromFile" -> loadTextureFromFileBody
    [] fn = "prepareSimpleVertexAndIndexBuffers" ->
         prepareSimpleVertexAndIndexBuffersBody
    [] fn = "prepareTextureVertexAndIndexBuffers" ->
         prepareTextureVertexAndIndexBuffersBody
    [] fn = "createFramebufferAttachments" -> createFramebufferAttachmentsBody
    [] fn = "createRenderPass" -> createRenderPassBody
    [] fn = "prepareGraphicsPipelineSimple" -> prepareGraphicsPipelineSimpleBody
    [] fn = "prepareGraphicsPipelineTexture" -> prepareGraphicsPipelineTextureBody
    [] fn = "createCommandBuffer" -> createCommandBufferBody
    [] fn = "createCommandBufferTexture" -> createCommandBufferTextureBody
    [] fn = "saveFramebufferImage" -> saveFramebufferImageBody
    [] fn = "~RenderImage" -> RenderImageDtorBody
    [] fn = "flushCommandBuffer" -> flushCommandBufferBody

(***************************************************************************)
(* Execution of one host statement.                                        *)
(***************************************************************************)
EmptyFn == [x \in {} |-> 0]

Top == stack[Len(stack)]

\* The statement the host is at; a return when the body is exhausted.
AtStatement == stack # <<>> /\ Top.ip <= Len(Body(Top.fn))
Cur == Body(Top.fn)[Top.ip]

\* The memory can be written by the host and the write reaches the device.
HostWritable(mem) ==
  /\ mem \in DOMAIN allocs
  /\ allocs[mem].index < Len(env.memoryTypes)
  /\ BitAnd(env.memoryTypes[allocs[mem].index + 1], HostVisibleCoherent)
       = HostVisibleCoherent

\* n bytes of unspecified content; -1 stands for a byte of any value.
Unspecified(n) == [k \in 1..n |-> -1]

\* What memcpy through a mapping leaves in the memory: the bytes copied,
\* or, when the memory is not host visible and coherent, possibly other bytes.
MappedWrite(mem, data) ==
  IF HostWritable(mem) THEN {data} ELSE {data, Unspecified(Len(data))}

\* What vkMapMemory with its result not tested leaves in the pointer: the
\* mapping, or, for memory that is not host visible, possibly nothing.
MappedPointer(mem) ==
  IF HostWritable(mem) THEN {"mapped"} ELSE {"mapped", "indeterminate"}

\* vkWaitForFences returns VK_SUCCESS once the fence is signaled
FenceWaitSucceeds(fence) ==
  fence \in DOMAIN fence_state /\ fence_state[fence] = "signaled"

\* vkWaitForFences returns VK_TIMEOUT when the timeout has passed first
FenceWaitTimesOut(fence, timeout) ==
  ~FenceWaitSucceeds(fence) /\ elapsed >= timeout

Advance == [stack EXCEPT ![Len(stack)].ip = @ + 1]

Exec(ins) ==
  /\ ins.op = "wait" =>
       \/ FenceWaitSucceeds(ins.obj)
       \/ ~ins.chk /\ FenceWaitTimesOut(ins.obj, ins.arg)
  /\ ins.op = "idle" => pending = <<>>
  /\ stack' = IF ins.op = "call"
              THEN Append(Advance, [fn |-> ins.obj, ip |-> 1])
              ELSE Advance
  /\ status' = status
  /\ live' = CASE ins.op \in CreationOps -> live \cup {ins.obj}
               [] ins.op \in ReleaseOps /\ ins.obj = "command_pool" ->
                    live \ ({ins.obj} \cup DOMAIN cb_state)
               [] ins.op \in ReleaseOps -> live \ {ins.obj}
               [] OTHER -> live
  /\ released' = CASE ins.op \in CreationOps -> (ins.obj :> 0) @@ released
                   [] ins.op \in ReleaseOps /\ ins.obj \in DOMAIN released ->
                        [released EXCEPT ![ins.obj] = @ + 1]
                   [] ins.op \in ReleaseOps -> (ins.obj :> 1) @@ released
                   [] OTHER -> released
  /\ misused' = misused \cup (Uses(ins) \ live)
  /\ allocs' = IF ins.op = "alloc"
               THEN (ins.obj :> [index |-> getMemoryTypeIndex(env.typeBits, ins.arg),
                                 type_bits |-> env.typeBits,
                                 properties |-> ins.arg]) @@ allocs
               ELSE allocs
  /\ bound' = IF ins.op = "bind" THEN (ins.obj :> ins.arg) @@ bound ELSE bound
  /\ mem_data' \in
       CASE ins.op = "alloc" -> {(ins.obj :> <<>>) @@ mem_data}
         [] ins.op = "memcpy" ->
              {(ins.obj :> d) @@ mem_data : d \in MappedWrite(ins.obj, ins.arg)}
         [] ins.op \in ReleaseOps ->
              {[m \in DOMAIN mem_data \ {ins.obj} |-> mem_data[m]]}
         [] OTHER -> {mem_data}
  /\ cmds' = CASE ins.op \in {"allocCmd", "begin"} -> (ins.obj :> <<>>) @@ cmds
               [] ins.op = "cmd" -> (ins.obj :> Append(cmds[ins.obj], ins.arg)) @@ cmds
               [] OTHER -> cmds
  /\ cb_state' = CASE ins.op = "allocCmd" -> (ins.obj :> "initial") @@ cb_state
                   [] ins.op = "begin" -> (ins.obj :> "recording") @@ cb_state
                   [] ins.op = "end" -> (ins.obj :> "executable") @@ cb_state
                   [] ins.op = "submit" -> (ins.obj :> "pending") @@ cb_state
                   [] OTHER -> cb_state
  /\ pending' = IF ins.op = "submit"
                THEN Append(pending, [cb |-> ins.obj, fence |-> ins.arg])
                ELSE pending
  /\ submits' = IF ins.op = "submit" THEN Append(submits, ins.obj) ELSE submits
  /\ fence_state' =
       CASE ins.op = "createFence" -> (ins.obj :> "unsignaled") @@ fence_state
         [] ins.op \in ReleaseOps ->
              [f \in DOMAIN fence_state \ {ins.obj} |-> fence_state[f]]
         [] OTHER -> fence_state
  /\ elapsed' = IF ins.op = "wait" THEN 0 ELSE elapsed
  /\ image_layout' = IF ins.op = "createImage"
                     THEN (ins.obj :> UNDEFINED) @@ image_layout
                     ELSE image_layout
  /\ submitted_layout' =
       CASE ins.op = "createImage" -> (ins.obj :> UNDEFINED) @@ submitted_layout
         [] ins.op = "submit" -> SubmitLayouts(cmds[ins.obj], submitted_layout)
         [] OTHER -> submitted_layout
  /\ descriptor' = IF ins.op = "update"
                   THEN [set |-> ins.obj,
                         buffer |-> "uniform_buffer_modelview",
                         imageView |-> "texture.view",
                         sampler |-> "texture.sampler",
                         imageLayout |-> fields["texture.imageLayout"]]
                   ELSE descriptor
  /\ buffer_info' = IF ins.op = "createBuffer"
                    THEN (ins.obj :> ins.arg) @@ buffer_info
                    ELSE buffer_info
  /\ fields' \in
       CASE ins.op = "set" -> {(ins.obj :> ins.arg) @@ fields}
         [] ins.op = "host" /\ ins.obj = "vkMapMemory" ->
              {("imagedata" :> p) @@ fields : p \in MappedPointer(ins.arg)}
         [] OTHER -> {fields}
  /\ log' = Append(log, <<ins.op, ins.obj>>)
  /\ UNCHANGED hostVars

\* A checked call returns an error (a fence wait: VK_TIMEOUT), stbi_load
\* returns null: VK_CHECK_RESULT and the uncaught exception end the process.
Fail(ins) ==
  /\ ins.chk
  /\ ins.op = "wait" => FenceWaitTimesOut(ins.obj, ins.arg)
  /\ status' = "fatal"
  /\ log' = Append(log, <<"failed", ins.obj>>)
  /\ UNCHANGED <<hostVars, stack, fields, live, released, misused, allocs, bound,
                 mem_data, cmds, cb_state, pending, fence_state, elapsed,
                 image_layout, submitted_layout, descriptor, submits, buffer_info>>

Return ==
  /\ stack' = SubSeq(stack, 1, Len(stack) - 1)
  /\ status' = IF Len(stack) = 1 THEN "exited" ELSE status
  /\ log' = Append(log, <<"return", Top.fn>>)
  /\ UNCHANGED <<hostVars, fields, live, released, misused, allocs, bound,
                 mem_data, cmds, cb_state, pending, fence_state, elapsed,
                 image_layout, submitted_layout, descriptor, submits, buffer_info>>

\* The host is in function fn.
In(fn) == status = "running" /\ stack # <<>> /\ Top.fn = fn

\* The next statement of the current function, or its return.
Step == IF AtStatement THEN Exec(Cur) \/ Fail(Cur) ELSE Return

(***************************************************************************)
(* The actions: one per function of the program, the device, the clock.    *)
(***************************************************************************)
main == In("main") /\ Step
RenderImage == In("RenderImage") /\ Step
createInstance == In("createInstance") /\ Step
setupDebugMessenger == In("setupDebugMessenger") /\ Step
pickPhysicalDevice == In("pickPhysicalDevice") /\ Step
createLogicalDevice == In("createLogicalDevice") /\ Step
createCommandPool == In("createCommandPool") /\ Step
loadTextureFromFile == In("loadTextureFromFile") /\ Step
prepareSimpleVertexAndIndexBuffers == In("prepareSimpleVertexAndIndexBuffers") /\ Step
prepareTextureVertexAndIndexBuffers == In("prepareTextureVertexAndIndexBuffers") /\ Step
createFramebufferAttachments == In("createFramebufferAttachments") /\ Step
createRenderPass == In("createRenderPass") /\ Step
prepareGraphicsPipelineSimple == In("prepareGraphicsPipelineSimple") /\ Step
prepareGraphicsPipelineTexture == In("prepareGraphicsPipelineTexture") /\ Step
createCommandBuffer == In("createCommandBuffer") /\ Step
createCommandBufferTexture == In("createCommandBufferTexture") /\ Step
saveFramebufferImage == In("saveFramebufferImage") /\ Step
RenderImageDtor == In("~RenderImage") /\ Step

\* The queue executes the oldest submitted command buffer and signals its fence.
GpuExecute ==
  /\ status = "running"
  /\ pending # <<>>
  /\ LET job == Head(pending)
         st == ExecCommands(cmds[job.cb], [data |-> mem_data, layout |-> image_layout])
     IN  /\ mem_data' = st.data
         /\ image_layout' = st.layout
         /\ fence_state' = [f \in DOMAIN fence_state |->
                              IF f = job.fence THEN "signaled" ELSE fence_state[f]]
         /\ cb_state' = [c \in DOMAIN cb_state |->
                           IF c = job.cb THEN "executable" ELSE cb_state[c]]
  /\ pending' = Tail(pending)
  /\ UNCHANGED <<hostVars, stack, status, fields, live, released, misused, allocs,
                 bound, cmds, elapsed, submitted_layout, descriptor, submits,
                 buffer_info, log>>

\* Time passes while the host blocks in vkWaitForFences.
Tick ==
  /\ status = "running"
  /\ AtStatement
  /\ Cur.op = "wait"
  /\ ~FenceWaitSucceeds(Cur.obj)
  /\ elapsed < Cur.arg
  /\ elapsed' = elapsed + 1
  /\ UNCHANGED <<hostVars, stack, status, fields, live, released, misused, allocs,
                 bound, mem_data, cmds, cb_state, pending, fence_state,
                 image_layout, submitted_layout, descriptor, submits, buffer_info,
                 log>>

(***************************************************************************)
(* The machines the run is checked on: the memory types of the physical    *)
(* device, the memoryTypeBits it reports for the resources, and whether    *)
(* the validation layer is installed, and the physical devices in          *)
(* enumeration order, each the list of its queue families (TRUE: the       *)
(* family has VK_QUEUE_GRAPHICS_BIT).                                      *)
(***************************************************************************)
Machines ==
  { \* a discrete GPU: every request finds its memory type
    [memoryTypes |-> <<VK_MEMORY_PROPERTY_DEVICE_LOCAL_BIT, HostVisibleCoherent>>,
     typeBits |-> 3, layer |-> TRUE, devices |-> << <<FALSE, TRUE>> >>,
     samplerAnisotropy |-> TRUE, maxSamplerAnisotropy |-> 16],
    \* unified memory: one type with every property
    [memoryTypes |-> <<AllFlags>>, typeBits |-> 1, layer |-> FALSE,
     devices |-> << <<TRUE>> >>],
    \* the resources may only live in type 0, which the host cannot see
    [memoryTypes |-> <<VK_MEMORY_PROPERTY_DEVICE_LOCAL_BIT, HostVisibleCoherent>>,
     typeBits |-> 1, layer |-> FALSE, devices |-> << <<TRUE>> >>],
    \* the resources may only live in type 0, which is not device local
    [memoryTypes |-> <<HostVisibleCoherent, VK_MEMORY_PROPERTY_DEVICE_LOCAL_BIT>>,
     typeBits |-> 1, layer |-> TRUE, devices |-> << <<TRUE>> >>] }

\* texture.imageLayout before line 1470 assigns it.  vks::Texture2D is
\* declared in VulkanTexture.h; the value is the one the specification gives
\* an image no barrier was submitted for.
Texture2DInitialLayout == UNDEFINED

\* The uploads: every byte sequence as the vertices with the code's indices,
\* and every byte sequence as the indices with the code's vertices.
Uploads ==
  {<<v, <<0, 1>> >> : v \in BoundedSeq(Bytes, MaxUploadSize)}
  \cup {<< <<1, 0>>, i>> : i \in BoundedSeq(Bytes, MaxUploadSize)}

\* The process before main's first statement.
Start ==
  /\ stack = <<[fn |-> "main", ip |-> 1]>>
  /\ status = "running"
  /\ fields = ("layers_available" :> FALSE) @@ ("index_buffer_count" :> 0)
              @@ ("texture.imageLayout" :> Texture2DInitialLayout)
              \* members and locals not assigned yet: -1 is no valid index
              @@ ("physical_device" :> -1) @@ ("queue_family_index" :> -1)
              @@ ("queue_create_info" :> [queueFamilyIndex |-> 0, queueCount |-> 0])
              @@ ("instance_layers" :> {}) @@ ("imagedata" :> "unassigned")
  /\ live = {}
  /\ released = EmptyFn
  /\ misused = {}
  /\ allocs = EmptyFn
  /\ bound = EmptyFn
  /\ mem_data = EmptyFn
  /\ cmds = EmptyFn
  /\ cb_state = EmptyFn
  /\ pending = <<>>
  /\ fence_state = EmptyFn
  /\ elapsed = 0
  /\ image_layout = EmptyFn
  /\ submitted_layout = EmptyFn
  /\ descriptor = <<>>
  /\ submits = <<>>
  /\ buffer_info = EmptyFn
  /\ log = <<>>

Init ==
  /\ argv \in [help : BOOLEAN, use_vertex : BOOLEAN]
  /\ env \in Machines
  /\ \E u \in Uploads : vertices = u[1] /\ indices = u[2]
  /\ Start

Next ==
  \/ main
  \/ RenderImage
  \/ createInstance
  \/ setupDebugMessenger
  \/ pickPhysicalDevice
  \/ createLogicalDevice
  \/ createCommandPool
  \/ loadTextureFromFile
  \/ prepareSimpleVertexAndIndexBuffers
  \/ prepareTextureVertexAndIndexBuffers
  \/ createFramebufferAttachments
  \/ createRenderPass
  \/ prepareGraphicsPipelineSimple
  \/ prepareGraphicsPipelineTexture
  \/ createCommandBuffer
  \/ createCommandBufferTexture
  \/ saveFramebufferImage
  \/ RenderImageDtor
  \/ GpuExecute
  \/ Tick

Spec == Init /\ [][Next]_vars

(***************************************************************************)
(* What has happened so far in the run.                                    *)
(***************************************************************************)
Range(s) == {s[k] : k \in 1..Len(s)}

Happened(op, obj) == <<op, obj>> \in Range(log)

Returned(fn) == Happened("return", fn)

\* The position of the first occurrence of an event in the log (0: none).
Pos(op, obj) ==
  LET S == {k \in 1..Len(log) : log[k] = <<op, obj>>}
  IN  IF S = {} THEN 0 ELSE CHOOSE k \in S : \A j \in S : k <= j

Recorded(cb) == IF cb \in DOMAIN cmds THEN cmds[cb] ELSE <<>>

IsPrefix(s, t) == Len(s) <= Len(t) /\ s = SubSeq(t, 1, Len(s))

IsTextureBarrier(c) ==
  c.c = "vkCmdPipelineBarrier" /\ c.p.image = "texture.image"

\* The host blocks in vkWaitForFences.
AtWait == status = "running" /\ AtStatement /\ Cur.op = "wait"

(***************************************************************************)
(* C1: loadTextureFromFile records exactly two barriers on the texture     *)
(* image, in this order: UNDEFINED -> TRANSFER_DST (no source access,      *)
(* destination access transfer-write) before the buffer-to-image copy,     *)
(* then TRANSFER_DST -> SHADER_READ_ONLY (transfer-write, shader-read)     *)
(* after it; at no time is another order recorded, in no other command     *)
(* buffer, and texture.imageLayout is SHADER_READ_ONLY when the function   *)
(* has returned.                                                           *)
(***************************************************************************)
TextureBarriers ==
  <<[image |-> "texture.image", srcAccessMask |-> {},
     dstAccessMask |-> {TRANSFER_WRITE},
     oldLayout |-> UNDEFINED, newLayout |-> TRANSFER_DST],
    [image |-> "texture.image", srcAccessMask |-> {TRANSFER_WRITE},
     dstAccessMask |-> {SHADER_READ},
     oldLayout |-> TRANSFER_DST, newLayout |-> SHADER_READ_ONLY]>>

TextureLayoutSequence ==
  LET cs == Recorded("copy_cmd@tex")
      bs == SelectSeq(cs, IsTextureBarrier)
      copies == {k \in 1..Len(cs) : cs[k].c = "vkCmdCopyBufferToImage"}
  IN  /\ IsPrefix([k \in 1..Len(bs) |-> bs[k].p], TextureBarriers)
      /\ \A k \in copies :
           Len(SelectSeq(SubSeq(cs, 1, k), IsTextureBarrier)) = 1
      /\ \A cb \in DOMAIN cmds \ {"copy_cmd@tex"} :
           SelectSeq(cmds[cb], IsTextureBarrier) = <<>>
      /\ Returned("loadTextureFromFile") =>
           /\ Len(bs) = 2
           /\ Cardinality(copies) = 1
           /\ fields["texture.imageLayout"] = SHADER_READ_ONLY

TextureLoaded ==
  /\ Returned("loadTextureFromFile")
  /\ Len(Recorded("copy_cmd@tex")) = 3
  /\ fields["texture.imageLayout"] = SHADER_READ_ONLY

(***************************************************************************)
(* C2: in every reachable state texture.imageLayout equals the layout of   *)
(* the most recently submitted barrier on the texture image, UNDEFINED     *)
(* while none has been submitted; this includes the states between the     *)
(* recording of the second barrier and the submission.                     *)
(***************************************************************************)
LayoutFieldTracksSubmission ==
  fields["texture.imageLayout"] =
    IF "texture.image" \in DOMAIN submitted_layout
    THEN submitted_layout["texture.image"]
    ELSE UNDEFINED

(***************************************************************************)
(* C3: in the TEXTURED variant the render command buffer, whose draw       *)
(* samples the texture, is submitted only after the command buffer with    *)
(* the TRANSFER_DST -> SHADER_READ_ONLY transition was submitted, its      *)
(* fence has signalled and the device has made the transition.             *)
(***************************************************************************)
RenderSubmitted == "command_buffer@render" \in Range(submits)

UploadBeforeRender ==
  (use_texture /\ RenderSubmitted) =>
    /\ 0 < Pos("submit", "copy_cmd@tex")
    /\ Pos("submit", "copy_cmd@tex") < Pos("wait", "fence@tex")
    /\ Pos("wait", "fence@tex") < Pos("submit", "command_buffer@render")
    /\ image_layout["texture.image"] = SHADER_READ_ONLY
    /\ \A job \in Range(pending) : job.cb # "copy_cmd@tex"

TexturedRenderSubmitted ==
  use_texture /\ RenderSubmitted /\ Happened("wait", "fence@tex")

(***************************************************************************)
(* getMemoryTypeIndex on its own: every memory-type list of up to          *)
(* MaxMemTypes types, every type_bits, every requested property mask.      *)
(***************************************************************************)
MemMachines ==
  { [memoryTypes |-> mt, typeBits |-> tb, layer |-> FALSE] :
      mt \in BoundedSeq(0..AllFlags, MaxMemTypes),
      tb \in 0..(Pow2(MaxMemTypes + 1) - 1) }

InitMem ==
  /\ argv = [help |-> FALSE, use_vertex |-> TRUE]
  /\ env \in MemMachines
  /\ vertices = <<1, 0>>
  /\ indices = <<0, 1>>
  /\ Start

\* The allocation of createBuffer, lines 1641-1647, for any requested mask.
getMemoryTypeIndexCall ==
  /\ \E properties \in 0..AllFlags :
       allocs' = ("memory" :> [index |-> getMemoryTypeIndex(env.typeBits, properties),
                               type_bits |-> env.typeBits,
                               properties |-> properties]) @@ allocs
  /\ UNCHANGED <<hostVars, stack, status, fields, live, released, misused, bound,
                 mem_data, cmds, cb_state, pending, fence_state, elapsed,
                 image_layout, submitted_layout, descriptor, submits, buffer_info,
                 log>>

NextMem == getMemoryTypeIndexCall

SpecMem == InitMem /\ [][NextMem]_vars

\* The memory types of the list that type_bits allows and that have the
\* properties.
QualifyingTypes(memoryTypes, type_bits, properties) ==
  {i \in 0..(Len(memoryTypes) - 1) : Qualifies(memoryTypes, i, type_bits, properties)}

(***************************************************************************)
(* C4: whenever some memory type has its bit set in type_bits and flags    *)
(* that are a superset of properties, getMemoryTypeIndex returns the       *)
(* lowest such index.                                                      *)
(***************************************************************************)
ReturnsLowestQualifying ==
  \A m \in DOMAIN allocs :
    LET Q == QualifyingTypes(env.memoryTypes, allocs[m].type_bits,
                             allocs[m].properties)
    IN  Q # {} => allocs[m].index \in Q /\ \A i \in Q : allocs[m].index <= i

SecondTypeFound ==
  /\ "memory" \in DOMAIN allocs
  /\ allocs["memory"].index = 1
  /\ allocs["memory"].properties # 0
  /\ QualifyingTypes(env.memoryTypes, allocs["memory"].type_bits,
                     allocs["memory"].properties) = {1}

(***************************************************************************)
(* C5: when no memory type matches, getMemoryTypeIndex returns 0 and the   *)
(* callers treat it as fatal: no memory is ever allocated from a type      *)
(* that type_bits does not allow or that lacks the requested properties.   *)
(***************************************************************************)
AllocationsQualify ==
  \A m \in DOMAIN allocs :
    Qualifies(env.memoryTypes, allocs[m].index, allocs[m].type_bits,
              allocs[m].properties)

(***************************************************************************)
(* C6: once a vertex or index upload has completed (staging filled, copy   *)
(* of the full size submitted, fence signalled), the destination buffer    *)
(* holds exactly the host bytes, whatever their number and values.         *)
(***************************************************************************)
GeometryUploads ==
  { [staging |-> "staging_buffer@vtx", stagingMemory |-> "staging_memory@vtx",
     dst |-> "vertex_buffer", dstMemory |-> "vertex_memory",
     fence |-> "fence@vtx", data |-> vertices],
    [staging |-> "staging_buffer@idx", stagingMemory |-> "staging_memory@idx",
     dst |-> "index_buffer", dstMemory |-> "index_memory",
     fence |-> "fence@idx", data |-> indices] }

UploadRoundTrips ==
  \A u \in GeometryUploads :
    (Happened("wait", u.fence) /\ u.dstMemory \in DOMAIN mem_data) =>
      mem_data[u.dstMemory] = u.data

(***************************************************************************)
(* C7: every vertex or index upload runs in this order: a staging buffer   *)
(* is created, its memory requested host-visible and host-coherent and     *)
(* filled; the destination is created with the same size and a usage that  *)
(* includes TRANSFER_DST; one buffer-to-buffer copy of that size is        *)
(* recorded, submitted with a fence and the fence waited for; only then    *)
(* are the staging buffer and its memory released.  No staging buffer or   *)
(* staging memory, the texture's included, is released while the command   *)
(* buffer that reads it is still pending.                                  *)
(***************************************************************************)
\* Between log positions a and b there are exactly n events <<op, obj>>.
CountBetween(op, obj, a, b) ==
  Cardinality({k \in (a + 1)..(b - 1) : log[k] = <<op, obj>>})

UploadInOrder(u) ==
  LET created == Pos("createBuffer", u.staging)
      requested == Pos("alloc", u.stagingMemory)
      filled == Pos("memcpy", u.stagingMemory)
      dstCreated == Pos("createBuffer", u.dst)
      fenced == Pos("createFence", u.fence)
      waited == Pos("wait", u.fence)
  IN  /\ 0 < created /\ created < requested /\ requested < filled
      /\ filled < dstCreated /\ dstCreated < fenced /\ fenced < waited
      /\ allocs[u.stagingMemory].properties = HostVisibleCoherent
      /\ buffer_info[u.staging].size = Len(u.data)
      /\ buffer_info[u.dst].size = Len(u.data)
      /\ "TRANSFER_DST" \in buffer_info[u.dst].usage
      /\ CountBetween("cmd", "copy_cmd@geom", dstCreated, fenced) = 1
      /\ CountBetween("submit", "copy_cmd@geom", fenced, waited) = 1
      /\ \A d \in {u.staging, u.stagingMemory} :
           Happened("destroy", d) => waited < Pos("destroy", d)

\* A pending copy is the one copy of an upload, of the full size.
IsUploadCopy(cs) ==
  /\ Len(cs) = 1
  /\ cs[1].c = "vkCmdCopyBuffer"
  /\ \E u \in GeometryUploads :
       cs[1].p = [src |-> u.staging, dst |-> u.dst, size |-> Len(u.data)]

SubmissionsAreWaitedFor ==
  /\ Len(pending) <= 1
  /\ pending # <<>> =>
       \/ status = "fatal"
       \/ AtWait /\ Cur.obj = pending[1].fence

ReadbackPending ==
  /\ pending # <<>>
  /\ pending[1].cb = "copy_cmd@save"
  /\ AtWait
  /\ Len(submits) >= 4

(***************************************************************************)
(* The run under the scheduling the platform guarantees: the host thread   *)
(* keeps executing and time keeps passing; the device promises nothing.    *)
(***************************************************************************)
FairInit == Init /\ vertices = <<1, 0>> /\ indices = <<0, 1>>

HostStep == status = "running" /\ stack # <<>> /\ Step

FairSpec == FairInit /\ [][Next]_vars /\ WF_vars(HostStep) /\ WF_vars(Tick)

(***************************************************************************)
(* C9: every fence wait, in submitWork and in flushCommandBuffer, has a    *)
(* finite timeout; a wait that ends without its fence signalled ends the   *)
(* run with a fatal error after the timeout has passed, never by going on  *)
(* or by waiting again; and no wait lasts forever.                         *)
(***************************************************************************)
WaitEndsFatally ==
  (AtWait /\ ~FenceWaitSucceeds(Cur.obj) /\ log' # log) =>
    (elapsed >= Cur.arg /\ status' = "fatal")

FenceWaitsEnd ==
  /\ [](AtWait => Cur.arg \in Nat /\ elapsed <= Cur.arg)
  /\ [][WaitEndsFatally]_vars
  /\ AtWait ~> ~AtWait

WaitTimedOut ==
  /\ status = "fatal"
  /\ AtStatement
  /\ Cur.op = "wait"
  /\ ~FenceWaitSucceeds(Cur.obj)
  /\ elapsed = Cur.arg

(***************************************************************************)
(* C10: after a successful run of either variant every GPU resource the    *)
(* run created (buffers, memory, images, views, sampler, descriptor pool,  *)
(* descriptor set layout, pipeline objects, render pass, framebuffer,      *)
(* shader modules, fences, command pool, device, instance) has been        *)
(* released exactly once when the destructor has returned; none is ever    *)
(* released twice or used after its release.                               *)
(***************************************************************************)
\* The created handles of the kinds the claim lists: all but the
\* descriptor set and the command buffers, which die with their pools.
OwnedResources == DOMAIN released \ ({"descriptor_set"} \cup DOMAIN cb_state)

EveryResourceReleasedOnce ==
  /\ \A r \in OwnedResources : released[r] <= 1
  /\ misused = {}
  /\ (status = "exited" /\ Returned("~RenderImage")) =>
       \A r \in OwnedResources : released[r] = 1

(***************************************************************************)
(* The releases of the destructor, in the order they happen.               *)
(***************************************************************************)
\* Log positions of the releases of the destructor.
DtorReleases ==
  LET p == Pos("call", "~RenderImage")
  IN  IF p = 0 THEN {}
      ELSE {k \in (p + 1)..Len(log) : log[k][1] \in ReleaseOps}

CreatedAt(obj) ==
  LET S == {k \in 1..Len(log) : log[k][1] \in CreationOps /\ log[k][2] = obj}
  IN  IF S = {} THEN 0 ELSE CHOOSE k \in S : \A j \in S : k <= j

IsRelease(e) == e[1] \in ReleaseOps

(***************************************************************************)
(* C11: the destructor releases in exact reverse order of creation: of     *)
(* two resources it releases, the one created later is released first.     *)
(***************************************************************************)
TeardownReversesCreation ==
  \A i \in DtorReleases : \A j \in DtorReleases :
    i < j => CreatedAt(log[j][2]) < CreatedAt(log[i][2])

(***************************************************************************)
(* C12: the command pool, the device and the instance are the last three   *)
(* objects the destructor releases, in this order; nothing created from    *)
(* the device is released after the device, nothing created from the       *)
(* instance after the instance.                                            *)
(***************************************************************************)
DeviceContextDestroyedLast ==
  /\ \A i \in DtorReleases : \A j \in DtorReleases :
       i < j => log[i][2] \notin Parent(log[j][2])
  /\ (status = "exited" /\ Returned("~RenderImage")) =>
       LET d == SelectSeq(log, IsRelease)
           n == Len(d)
       IN  /\ n >= 3
           /\ <<d[n - 2][2], d[n - 1][2], d[n][2]>>
                = <<"command_pool", "device", "instance">>

(***************************************************************************)
(* The device bootstrap on its own: every list of up to MaxDevices         *)
(* physical devices with up to MaxFamilies queue families each.            *)
(***************************************************************************)
FamilyLists == {<<>>} \cup BoundedSeq(BOOLEAN, MaxFamilies)

DeviceLists == {<<>>} \cup BoundedSeq(FamilyLists, MaxDevices)

BootMachines ==
  { [memoryTypes |-> <<AllFlags>>, typeBits |-> 1, layer |-> l, devices |-> d] :
      l \in BOOLEAN, d \in DeviceLists }

InitBoot ==
  /\ argv = [help |-> FALSE, use_vertex |-> TRUE]
  /\ env \in BootMachines
  /\ vertices = <<1, 0>>
  /\ indices = <<0, 1>>
  /\ Start

NextBoot ==
  \/ main
  \/ RenderImage
  \/ createInstance
  \/ setupDebugMessenger
  \/ pickPhysicalDevice
  \/ createLogicalDevice
  \/ createCommandPool

SpecBoot == InitBoot /\ [][NextBoot]_vars

\* Device d (from 1) reports a queue family with the graphics bit.
GraphicsCapable(d) ==
  d \in 1..Len(env.devices)
  /\ \E f \in 1..Len(env.devices[d]) : env.devices[d][f]

\* The lowest index (from 0) of a graphics family of device d.
LowestGraphicsFamily(d) ==
  CHOOSE f \in 0..(Len(env.devices[d]) - 1) :
    /\ env.devices[d][f + 1]
    /\ \A g \in 0..(f - 1) : ~env.devices[d][g + 1]

DeviceCreationAttempted ==
  Happened("create", "device") \/ Happened("failed", "device")

(***************************************************************************)
(* C13: when the list of physical devices is empty or the selected device  *)
(* has no graphics queue family, the run ends with a fatal error before    *)
(* vkCreateDevice; no device, queue or command pool is created from a      *)
(* device or a queue family that was not selected.                         *)
(***************************************************************************)
BootstrapFailsFatally ==
  /\ DeviceCreationAttempted =>
       /\ env.devices # <<>>
       /\ GraphicsCapable(fields["physical_device"] + 1)
       /\ Happened("set", "queue_family_index")
       /\ fields["device_create_info"].pQueueCreateInfos
            = [queueFamilyIndex |-> fields["queue_family_index"], queueCount |-> 1]
  /\ Happened("set", "queue") =>
       Happened("set", "queue_family_index")
  /\ Happened("create", "command_pool") =>
       /\ Happened("set", "queue_family_index")
       /\ fields["cmd_pool_info"].queueFamilyIndex = fields["queue_family_index"]

(***************************************************************************)
(* C14: the physical device selected is the first in enumeration order     *)
(* that has a graphics queue family; the logical device has exactly one    *)
(* queue, from the lowest graphics family of that device; the command      *)
(* pool is created for the same family with the reset-command-buffer flag. *)
(***************************************************************************)
SelectsFirstGraphicsDevice ==
  LET capable == {d \in 1..Len(env.devices) : GraphicsCapable(d)}
      first == CHOOSE d \in capable : \A e \in capable : d <= e
  IN  capable # {} =>
        /\ Happened("create", "device") =>
             /\ fields["physical_device"] + 1 = first
             /\ fields["device_create_info"].queueCreateInfoCount = 1
             /\ fields["device_create_info"].pQueueCreateInfos
                  = [queueFamilyIndex |-> LowestGraphicsFamily(first),
                     queueCount |-> 1]
        /\ Happened("create", "command_pool") =>
             /\ fields["cmd_pool_info"].queueFamilyIndex = LowestGraphicsFamily(first)
             /\ fields["cmd_pool_info"].flags
                  = {"VK_COMMAND_POOL_CREATE_RESET_COMMAND_BUFFER_BIT"}

(***************************************************************************)
(* The file writer on its own: every image of up to MaxWidth x MaxHeight   *)
(* pixels, every row pitch from width * 4 to width * 4 + MaxPadding and    *)
(* every offset of the first row up to MaxOffset.                          *)
(***************************************************************************)
PpmInputs ==
  { [width |-> w, height |-> h, rowPitch |-> 4 * w + p, offset |-> o] :
      w \in 1..MaxWidth, h \in 1..MaxHeight, p \in 0..MaxPadding,
      o \in 0..MaxOffset }

InitPpm ==
  /\ argv = [help |-> FALSE, use_vertex |-> TRUE]
  /\ env \in PpmInputs
  /\ vertices = <<1, 0>>
  /\ indices = <<0, 1>>
  /\ Start

writeFile ==
  /\ "file" \notin DOMAIN fields
  /\ fields' = ("file" :> ppmFile(env.width, env.height, env)) @@ fields
  /\ UNCHANGED <<argv, env, vertices, indices, stack, status, live, released,
                 misused, allocs, bound, mem_data, cmds, cb_state, pending,
                 fence_state, elapsed, image_layout, submitted_layout,
                 descriptor, submits, buffer_info, log>>

NextPpm == writeFile

SpecPpm == InitPpm /\ [][NextPpm]_vars

FileWritten == "file" \in DOMAIN fields

\* The lines of a character sequence, each without its newline.
Newlines(s) == {k \in 1..Len(s) : s[k] = "\n"}

LineOf(s, n) ==
  LET ends == {k \in Newlines(s) : Cardinality({j \in Newlines(s) : j <= k}) = n}
      stop == CHOOSE k \in ends : TRUE
      before == {j \in Newlines(s) : j < stop}
      start == IF before = {} THEN 1
               ELSE 1 + CHOOSE j \in before : \A i \in before : i <= j
  IN  SubSeq(s, start, stop - 1)

\* The number a sequence of decimal digits denotes.
RECURSIVE Value(_)
Value(ds) ==
  IF ds = <<>> THEN 0
  ELSE 10 * Value(SubSeq(ds, 1, Len(ds) - 1))
         + CHOOSE d \in 0..9 : Digit(d) = ds[Len(ds)]

(***************************************************************************)
(* C15: the file is the header lines "P6", width, height, 255, each ended  *)
(* by a newline, followed by exactly width * height * 3 pixel bytes,       *)
(* whatever the row pitch; the header of a 640 x 512 image is 15 bytes.    *)
(***************************************************************************)
PpmFileShape ==
  /\ FileWritten =>
       LET f == fields["file"]
       IN  /\ Cardinality(Newlines(f.header)) = 4
           /\ f.header[Len(f.header)] = "\n"
           /\ LineOf(f.header, 1) = <<"P", "6">>
           /\ Value(LineOf(f.header, 2)) = env.width
           /\ Value(LineOf(f.header, 3)) = env.height
           /\ LineOf(f.header, 4) = <<"2", "5", "5">>
           /\ Len(f.pixels) = env.width * env.height * 3
  /\ Len(ppmHeader(width, height)) = 15
  /\ Value(LineOf(ppmHeader(width, height), 2)) = width
  /\ Value(LineOf(ppmHeader(width, height), 3)) = height

PaddedRowsWritten ==
  /\ FileWritten
  /\ env.rowPitch > env.width * 4
  /\ env.height > 1

(***************************************************************************)
(* C16: the three bytes of pixel (x, y), at 3 * (y * width + x) in the     *)
(* pixel data, are the mapped bytes at offset + y * rowPitch + 4 * x + 0,  *)
(* 1, 2; rows are written top first, and no byte outside                   *)
(* offset .. offset + (height - 1) * rowPitch + 4 * width is read.         *)
(***************************************************************************)
PixelsReadAtPitch ==
  FileWritten =>
    LET f == fields["file"]
    IN  /\ \A y \in 0..(env.height - 1) : \A x \in 0..(env.width - 1) :
             \A c \in 0..2 :
               f.pixels[3 * (y * env.width + x) + c + 1]
                 = env.offset + y * env.rowPitch + 4 * x + c
        /\ \A k \in 1..Len(f.pixels) :
             /\ f.pixels[k] >= env.offset
             /\ f.pixels[k] < env.offset + (env.height - 1) * env.rowPitch
                                + 4 * env.width

OffsetPaddedImageWritten ==
  /\ FileWritten
  /\ env.offset > 0
  /\ env.rowPitch > env.width * 4
  /\ env.width > 1
  /\ env.height > 1

ReadbackCommands ==
  <<[c |-> "vkCmdPipelineBarrier", refs |-> {"dst_image"},
     p |-> [image |-> "dst_image", srcAccessMask |-> {},
            dstAccessMask |-> {TRANSFER_WRITE},
            oldLayout |-> UNDEFINED, newLayout |-> TRANSFER_DST]],
    [c |-> "vkCmdCopyImage", refs |-> {"color_attachment.image", "dst_image"},
     p |-> [src |-> "color_attachment.image", srcImageLayout |-> TRANSFER_SRC,
            dst |-> "dst_image", dstImageLayout |-> TRANSFER_DST,
            extent |-> <<640, 512, 1>>]],
    [c |-> "vkCmdPipelineBarrier", refs |-> {"dst_image"},
     p |-> [image |-> "dst_image", srcAccessMask |-> {TRANSFER_WRITE},
            dstAccessMask |-> {MEMORY_READ},
            oldLayout |-> TRANSFER_DST, newLayout |-> GENERAL]]>>

ReadbackOrder ==
  /\ IsPrefix(Recorded("copy_cmd@save"), ReadbackCommands)
  /\ Happened("submit", "copy_cmd@save") =>
       Recorded("copy_cmd@save") = ReadbackCommands
  /\ \A k \in 1..Len(log) :
       log[k] \in {<<"host", "vkMapMemory">>, <<"host", "write file">>} =>
         /\ 0 < Pos("submit", "copy_cmd@save")
         /\ Pos("submit", "copy_cmd@save") < Pos("wait", "fence@save")
         /\ Pos("wait", "fence@save") < k
  /\ (Happened("host", "vkMapMemory") /\ ~Happened("host", "vkUnmapMemory")) =>
       /\ image_layout["dst_image"] = GENERAL
       /\ \A job \in Range(pending) : job.cb # "copy_cmd@save"

ReadbackRead ==
  /\ Happened("host", "write file")
  /\ ~Happened("host", "vkUnmapMemory")
  /\ image_layout["dst_image"] = GENERAL

(***************************************************************************)
(* C19: in both variants the render submission has completed, its fence    *)
(* waited for and the device idle, before saveFramebufferImage records     *)
(* its copy; when the copy is executed the color attachment is in          *)
(* TRANSFER_SRC, the final layout of the render pass, and holds the        *)
(* rendered frame.                                                         *)
(***************************************************************************)
RenderBeforeReadback ==
  /\ Happened("cmd", "copy_cmd@save") =>
       /\ 0 < Pos("submit", "command_buffer@render")
       /\ Pos("submit", "command_buffer@render") < Pos("wait", "fence@render")
       /\ Pos("wait", "fence@render") < Pos("idle", "vkDeviceWaitIdle")
       /\ Pos("idle", "vkDeviceWaitIdle") < Pos("cmd", "copy_cmd@save")
  /\ \A k \in 1..Len(pending) :
       pending[k].cb = "copy_cmd@save" =>
         /\ \A j \in 1..Len(pending) : pending[j].cb # "command_buffer@render"
         /\ image_layout["color_attachment.image"] = TRANSFER_SRC
         /\ mem_data[bound["color_attachment.image"]] = renderedFrame

ReadbackCopyPending ==
  /\ \E k \in 1..Len(pending) : pending[k].cb = "copy_cmd@save"
  /\ mem_data[bound["color_attachment.image"]] = renderedFrame

(***************************************************************************)
(* C20: a run has one variant, untextured exactly when use_vertex is       *)
(* given.  An untextured run never creates or binds a texture, a uniform   *)
(* buffer, a descriptor pool or a descriptor set; a textured run never     *)
(* records push constants; no run calls functions of both variants.        *)
(***************************************************************************)
TexturedObjects ==
  {"texture.image", "texture.deviceMemory", "texture.sampler", "texture.view",
   "uniform_buffer_modelview", "uniform_buffer_memory",
   "descriptor_pool", "descriptor_set"}

TexturedFunctions ==
  {"loadTextureFromFile", "prepareTextureVertexAndIndexBuffers",
   "prepareGraphicsPipelineTexture", "createCommandBufferTexture"}

UntexturedFunctions ==
  {"prepareSimpleVertexAndIndexBuffers", "prepareGraphicsPipelineSimple",
   "createCommandBuffer"}

Called == {log[k][2] : k \in {j \in 1..Len(log) : log[j][1] = "call"}}

RecordedCommands == UNION {Range(cmds[cb]) : cb \in DOMAIN cmds}

OneVariantPerRun ==
  /\ argv.use_vertex =>
       /\ Called \cap TexturedFunctions = {}
       /\ \A k \in 1..Len(log) : log[k][2] \notin TexturedObjects
       /\ \A c \in RecordedCommands :
            /\ c.refs \cap TexturedObjects = {}
            /\ c.c # "vkCmdBindDescriptorSets"
       /\ DOMAIN bound \cap TexturedObjects = {}
  /\ ~argv.use_vertex =>
       /\ Called \cap UntexturedFunctions = {}
       /\ \A c \in RecordedCommands : c.c # "vkCmdPushConstants"
  /\ Called \cap TexturedFunctions = {} \/ Called \cap UntexturedFunctions = {}
  /\ Returned("RenderImage") =>
       /\ argv.use_vertex => UntexturedFunctions \subseteq Called
       /\ ~argv.use_vertex => TexturedFunctions \subseteq Called

UntexturedRendered ==
  /\ argv.use_vertex
  /\ RenderSubmitted
  /\ \E c \in RecordedCommands : c.c = "vkCmdPushConstants"

(***************************************************************************)
(* C21: with the help flag the program prints the usage and returns 0      *)
(* from main without GPU work: nothing is created, nothing is submitted,   *)
(* no output file is written and no fatal error occurs, whatever the       *)
(* other flags are.                                                        *)
(***************************************************************************)
GpuWork ==
  {k \in 1..Len(log) :
     log[k][1] \in CreationOps \cup {"call", "submit", "cmd", "failed"}
     \/ log[k] = <<"host", "write file">>}

HelpDoesNoGpuWork ==
  argv.help =>
    /\ GpuWork = {}
    /\ live = {}
    /\ pending = <<>>
    /\ status # "fatal"
    /\ status = "exited" =>
         /\ Happened("host", "printHelp")
         /\ Returned("main")

HelpExited ==
  /\ argv.help
  /\ argv.use_vertex
  /\ status = "exited"

(***************************************************************************)
(* C22: when the texture file cannot be decoded, loadTextureFromFile ends  *)
(* the run with a fatal error before a staging buffer, staging memory,     *)
(* image, image memory, command buffer, sampler or view of the texture     *)
(* has been created, and no output file is written.                        *)
(***************************************************************************)
TextureResources ==
  {"staging_buffer@tex", "staging_memory@tex", "texture.image",
   "texture.deviceMemory", "copy_cmd@tex", "texture.sampler", "texture.view"}

TextureResourceEvents ==
  {k \in 1..Len(log) : log[k][2] \in TextureResources}

DecodeFailureIsFatal ==
  /\ Happened("failed", "stbi_load") =>
       /\ status = "fatal"
       /\ TextureResourceEvents = {}
       /\ ~Happened("host", "write file")
  /\ TextureResourceEvents # {} =>
       \E j \in 1..Len(log) :
         /\ log[j] = <<"host", "stbi_load">>
         /\ \A k \in TextureResourceEvents : j < k

DecodeFailed ==
  /\ Happened("failed", "stbi_load")
  /\ Happened("create", "command_pool")

(***************************************************************************)
(* The calls that return a VkResult the code does not test (lines 134,     *)
(* 317, 384, 483, 526), and the runs in which such a call returns an       *)
(* error: the host goes on with its next statement.  A failed enumeration  *)
(* leaves the layer list without the validation layer, a failed mapping    *)
(* leaves the pointer unassigned.                                          *)
(***************************************************************************)
UncheckedResults ==
  {<<"set", "instance_layers">>, <<"host", "vkMapMemory">>,
   <<"idle", "vkDeviceWaitIdle">>, <<"idle", "vkQueueWaitIdle">>}

ignoredError ==
  /\ status = "running"
  /\ AtStatement
  /\ ~Cur.chk
  /\ <<Cur.op, Cur.obj>> \in UncheckedResults
  /\ stack' = Advance
  /\ log' = Append(log, <<"error", Cur.obj>>)
  /\ fields' = IF Cur.obj = "vkMapMemory"
               THEN ("imagedata" :> "indeterminate") @@ fields
               ELSE fields
  /\ UNCHANGED <<hostVars, status, live, released, misused, allocs, bound,
                 mem_data, cmds, cb_state, pending, fence_state, elapsed,
                 image_layout, submitted_layout, descriptor, submits, buffer_info>>

InitErr ==
  /\ argv \in [help : {FALSE}, use_vertex : BOOLEAN]
  /\ env = [memoryTypes |-> <<AllFlags>>, typeBits |-> 1, layer |-> TRUE,
            devices |-> << <<TRUE>> >>]
  /\ vertices = <<1, 0>>
  /\ indices = <<0, 1>>
  /\ Start

NextErr == Next \/ ignoredError

SpecErr == InitErr /\ [][NextErr]_vars

Count(op, obj) == Cardinality({k \in 1..Len(log) : log[k] = <<op, obj>>})

(***************************************************************************)
(* C23: a run either completes one render submission and writes one        *)
(* complete output file, or ends before the output file is opened: no      *)
(* fatal error occurs after the file has been opened, no run submits more  *)
(* than one frame or writes more than one file.                            *)
(***************************************************************************)
OneFrameOneFileOrNone ==
  /\ Count("submit", "command_buffer@render") <= 1
  /\ Count("host", "write file") <= 1
  /\ Count("set", "file.pixel") <= 1
  /\ status = "fatal" => ~Happened("host", "write file")
  /\ (status = "exited" /\ ~argv.help) =>
       /\ Count("submit", "command_buffer@render") = 1
       /\ Happened("set", "file.pixel")
       /\ fields["imagedata"] = "mapped"

(***************************************************************************)
(* C24: a graphics-API call that returns an error ends the process at      *)
(* once: the error is the last thing that happens in the run, also for     *)
(* the mapping of the readback memory, the waits for idle and the          *)
(* enumeration of the layers, and no call is tried again.                  *)
(***************************************************************************)
ApiErrorsAreFatal ==
  \A k \in 1..Len(log) :
    log[k][1] \in {"error", "failed"} =>
      /\ k = Len(log)
      /\ status = "fatal"

(***************************************************************************)
(* C25: a host mapping of device memory is opened and closed within one    *)
(* function, as map, copy, unmap: at most one mapping exists at a time,    *)
(* no memory is mapped while it is mapped already, no memory is freed      *)
(* while mapped, and no mapped pointer is used after its unmap.            *)
(***************************************************************************)
\* The memory a log entry maps, unmaps or accesses through a mapping.
MappingOf(e) ==
  IF e[1] = "host" \/ e[2] = "file.pixel" THEN "dst_image_memory" ELSE e[2]

IsMap(e) == e[1] = "map" \/ e = <<"host", "vkMapMemory">>

IsUnmap(e) == e[1] = "unmap" \/ e = <<"host", "vkUnmapMemory">>

IsMappedAccess(e) ==
  e[1] = "memcpy" \/ e = <<"set", "file.pixel">>

\* The log positions of the maps and unmaps.
MapEvents == {k \in 1..Len(log) : IsMap(log[k]) \/ IsUnmap(log[k])}

\* The memories mapped more often than unmapped among the events at ks.
MappedAmong(ks) ==
  {m \in {MappingOf(log[k]) : k \in ks} :
     Cardinality({k \in ks : IsMap(log[k]) /\ MappingOf(log[k]) = m})
       > Cardinality({k \in ks : IsUnmap(log[k]) /\ MappingOf(log[k]) = m})}

Mapped == MappedAmong(MapEvents)

MappingsAreScoped ==
  LET events == MapEvents
      mapped == MappedAmong(events)
  IN  /\ Cardinality(mapped) <= 1
      /\ log # <<>> =>
           LET e == log[Len(log)]
               before == {k \in events : k < Len(log)}
               opened == Cardinality({k \in before :
                           IsMap(log[k]) /\ MappingOf(log[k]) = MappingOf(e)})
               closed == Cardinality({k \in before :
                           IsUnmap(log[k]) /\ MappingOf(log[k]) = MappingOf(e)})
           IN  /\ IsMap(e) => opened = closed
               /\ IsUnmap(e) => opened = closed + 1
               /\ IsMappedAccess(e) => MappingOf(e) \in mapped
               /\ e[1] \in ReleaseOps => e[2] \notin mapped
               /\ e[1] \in {"call", "return"} => mapped = {}

ReadbackUnmapped ==
  /\ Happened("host", "vkUnmapMemory")
  /\ Happened("unmap", "staging_memory@vtx")
  /\ Mapped = {}

(***************************************************************************)
(* C26: in the textured variant the uniform buffer of descriptor binding   *)
(* 0 holds, before the draw is submitted, exactly the record ubo_scene     *)
(* computed in the constructor, and it is written once.                    *)
(***************************************************************************)
UniformBufferHoldsScene ==
  (use_texture /\ RenderSubmitted) =>
    /\ descriptor.buffer = "uniform_buffer_modelview"
    /\ Count("memcpy", "uniform_buffer_memory") = 1
    /\ mem_data[bound["uniform_buffer_modelview"]] = ubo_scene

(***************************************************************************)
(* C27: the vertex, index and uniform buffers are allocated in device      *)
(* local memory and filled only by a copy from a staging buffer; none is   *)
(* allocated in host visible memory and written by the host.               *)
(***************************************************************************)
ResidentBuffers == {"vertex_buffer", "index_buffer", "uniform_buffer_modelview"}

ResidentBuffersAreStaged ==
  \A b \in ResidentBuffers \cap DOMAIN bound :
    /\ allocs[bound[b]].properties = VK_MEMORY_PROPERTY_DEVICE_LOCAL_BIT
    /\ ~Happened("memcpy", bound[b])

(***************************************************************************)
(* C28: a run executes the stages in the order device bootstrap, texture   *)
(* load and geometry upload, attachments, render pass and pipeline,        *)
(* command recording and render submission, readback, teardown; a stage    *)
(* starts only when the one before it has finished, and none is executed   *)
(* twice.                                                                  *)
(***************************************************************************)
StageOrder ==
  <<"RenderImage", "createInstance", "setupDebugMessenger", "pickPhysicalDevice",
    "createLogicalDevice", "createCommandPool">>
  \o (IF argv.use_vertex
      THEN <<"prepareSimpleVertexAndIndexBuffers">>
      ELSE <<"loadTextureFromFile", "prepareTextureVertexAndIndexBuffers">>)
  \o <<"createFramebufferAttachments", "createRenderPass">>
  \o (IF argv.use_vertex
      THEN <<"prepareGraphicsPipelineSimple", "createCommandBuffer">>
      ELSE <<"prepareGraphicsPipelineTexture", "createCommandBufferTexture">>)
  \o <<"saveFramebufferImage", "~RenderImage">>

IsCall(e) == e[1] = "call"

Calls == LET cs == SelectSeq(log, IsCall) IN [k \in 1..Len(cs) |-> cs[k][2]]

StagesInOrder ==
  /\ IsPrefix(Calls, StageOrder)
  /\ (log # <<>> /\ IsCall(log[Len(log)])) =>
       /\ pending = <<>>
       /\ \A k \in 2..(Len(Calls) - 1) : Returned(Calls[k])
       /\ log[Len(log)][2] = "~RenderImage" => Returned("RenderImage")
  /\ (status = "exited" /\ ~argv.help) =>
       /\ Calls = StageOrder
       /\ Returned("~RenderImage")

TeardownStarted ==
  /\ ~argv.use_vertex
  /\ log # <<>>
  /\ log[Len(log)] = <<"call", "~RenderImage">>

(***************************************************************************)
(* The builds: with and without NDEBUG, on a machine with and without the  *)
(* validation layer.                                                       *)
(***************************************************************************)
InitBuild ==
  /\ argv \in [help : {FALSE}, use_vertex : BOOLEAN]
  /\ env \in {[memoryTypes |-> <<AllFlags>>, typeBits |-> 1, layer |-> l,
               devices |-> << <<TRUE>> >>, NDEBUG |-> n] :
                l \in BOOLEAN, n \in BOOLEAN}
  /\ vertices = <<1, 0>>
  /\ indices = <<0, 1>>
  /\ Start

SpecBuild == InitBuild /\ [][Next]_vars

CallbackCreated == Happened("create", "debug_report_callback")

CallbackDestroyed == Happened("destroy", "debug_report_callback")

\* The validation layer is among the enumerated instance layers.
LayerAvailable == env.layer

LayerIsOptionalWhen(wanted) ==
  /\ ~Happened("failed", "instance_layers")
  /\ ~Happened("failed", "layers_available")
  /\ Happened("set", "instance_create_info") =>
       fields["instance_create_info"]
         = IF wanted
           THEN [ppEnabledLayerNames |-> {"VK_LAYER_KHRONOS_validation"},
                 ppEnabledExtensionNames |-> {"VK_EXT_debug_report"}]
           ELSE [ppEnabledLayerNames |-> {}, ppEnabledExtensionNames |-> {}]
  /\ CallbackCreated => wanted
  /\ Returned("setupDebugMessenger") => (CallbackCreated <=> wanted)
  /\ CallbackDestroyed => CallbackCreated
  /\ Count("destroy", "debug_report_callback") <= 1
  /\ Returned("~RenderImage") => (CallbackDestroyed <=> wanted)

(***************************************************************************)
(* C29 as stated: without the validation layer the instance is created     *)
(* without layer and debug-report extension, no debug callback is created  *)
(* and none is destroyed; the callback is created and destroyed exactly    *)
(* when the layer is available.                                            *)
(***************************************************************************)
CallbackIffLayer == LayerIsOptionalWhen(LayerAvailable)

(***************************************************************************)
(* C29, amended: the same with "the layer is available" replaced by "the   *)
(* build has DEBUG set and the layer is available"; a build with NDEBUG    *)
(* never asks for the layer and never creates the callback.                *)
(***************************************************************************)
CallbackIffDebugAndLayer == LayerIsOptionalWhen(DEBUG /\ LayerAvailable)

TornDownWithoutLayer ==
  /\ DEBUG
  /\ ~LayerAvailable
  /\ Returned("~RenderImage")
  /\ ~CallbackCreated

(***************************************************************************)
(* C30: the frame is recorded inside one render pass begin/end pair,       *)
(* after viewport, scissor, pipeline and vertex/index buffer binds.  The   *)
(* untextured variant records three indexed draws of 3 indices, each       *)
(* directly after its own push-constant update, one per translation in     *)
(* list order; the textured variant records one indexed draw whose index   *)
(* count is the number of indices uploaded to the index buffer.            *)
(***************************************************************************)
FrameCommands ==
  <<"vkCmdBeginRenderPass", "vkCmdSetViewport", "vkCmdSetScissor">>
  \o (IF argv.use_vertex
      THEN <<"vkCmdBindPipeline", "vkCmdBindVertexBuffers", "vkCmdBindIndexBuffer",
             "vkCmdPushConstants", "vkCmdDrawIndexed",
             "vkCmdPushConstants", "vkCmdDrawIndexed",
             "vkCmdPushConstants", "vkCmdDrawIndexed">>
      ELSE <<"vkCmdBindDescriptorSets", "vkCmdBindPipeline",
             "vkCmdBindVertexBuffers", "vkCmdBindIndexBuffer",
             "vkCmdDrawIndexed">>)
  \o <<"vkCmdEndRenderPass">>

IsPush(c) == c.c = "vkCmdPushConstants"

IsDraw(c) == c.c = "vkCmdDrawIndexed"

RecordedFrame ==
  LET cs == Recorded("command_buffer@render")
      pushes == SelectSeq(cs, IsPush)
      draws == SelectSeq(cs, IsDraw)
  IN  /\ IsPrefix([k \in 1..Len(cs) |-> cs[k].c], FrameCommands)
      /\ RenderSubmitted => Len(cs) = Len(FrameCommands)
      /\ IsPrefix([k \in 1..Len(pushes) |-> pushes[k].p.pos], <<1, 2, 3>>)
      /\ \A k \in 1..Len(draws) :
           draws[k].p.indexCount
             = IF argv.use_vertex THEN 3 ELSE buffer_info["index_buffer"].size

UntexturedFrameRecorded ==
  /\ argv.use_vertex
  /\ RenderSubmitted
  /\ Len(SelectSeq(Recorded("command_buffer@render"), IsDraw)) = 3

(***************************************************************************)
(* C31: the textured variant allocates one descriptor set from a pool of   *)
(* one uniform-buffer and one combined-image-sampler descriptor and writes *)
(* it with the uniform buffer and the texture's view, sampler and recorded *)
(* layout, after the texture has been loaded and before the set is bound   *)
(* in the frame's command buffer; the untextured variant binds no set.     *)
(***************************************************************************)
IsDescriptorBind(c) == c.c = "vkCmdBindDescriptorSets"

DescriptorSetBound ==
  SelectSeq(Recorded("command_buffer@render"), IsDescriptorBind) # <<>>

DescriptorSetWritten ==
  /\ Count("create", "descriptor_set") <= 1
  /\ Happened("create", "descriptor_set") =>
       /\ use_texture
       /\ fields["descriptor_pool_info"].poolSizes
            = ("VK_DESCRIPTOR_TYPE_UNIFORM_BUFFER" :> 1)
              @@ ("VK_DESCRIPTOR_TYPE_COMBINED_IMAGE_SAMPLER" :> 1)
  /\ (log # <<>> /\ log[Len(log)] = <<"update", "descriptor_set">>) =>
       /\ Returned("loadTextureFromFile")
       /\ Count("update", "descriptor_set") = 1
       /\ ~DescriptorSetBound
  /\ descriptor # <<>> =>
       descriptor = [set |-> "descriptor_set",
                     buffer |-> "uniform_buffer_modelview",
                     imageView |-> "texture.view",
                     sampler |-> "texture.sampler",
                     imageLayout |-> fields["texture.imageLayout"]]
  /\ DescriptorSetBound =>
       /\ use_texture
       /\ descriptor # <<>>
       /\ Len(SelectSeq(Recorded("command_buffer@render"), IsDescriptorBind)) = 1

DescriptorSetInFrame ==
  /\ DescriptorSetBound
  /\ RenderSubmitted

(***************************************************************************)
(* flushCommandBuffer on its own: every command buffer argument (null, or  *)
(* a buffer of the pool with commands recorded) and both values of free,   *)
(* on a device whose pool exists.                                          *)
(***************************************************************************)
RecordedBeforeFlush ==
  {<<>>} \cup BoundedSeq({Command("vkCmdSetViewport", {}, <<>>),
                          Command("vkCmdSetScissor", {}, <<>>)}, MaxRecorded)

FlushArguments ==
  {<<"VK_NULL_HANDLE", free, <<>> >> : free \in BOOLEAN}
  \cup {<<"cmd_buffer", free, cs>> : free \in BOOLEAN, cs \in RecordedBeforeFlush}

InitFlush ==
  /\ argv = [help |-> FALSE, use_vertex |-> TRUE]
  /\ vertices = <<1, 0>>
  /\ indices = <<0, 1>>
  /\ \E a \in FlushArguments :
       /\ env = [memoryTypes |-> <<AllFlags>>, typeBits |-> 1, layer |-> FALSE,
                 devices |-> << <<TRUE>> >>, command_buffer |-> a[1], free |-> a[2]]
       /\ live = {"instance", "device", "command_pool"}
                 \cup (IF a[1] = "VK_NULL_HANDLE" THEN {} ELSE {a[1]})
       /\ released = [o \in live |-> 0]
       /\ cmds = IF a[1] = "VK_NULL_HANDLE" THEN EmptyFn ELSE (a[1] :> a[3])
       /\ cb_state = IF a[1] = "VK_NULL_HANDLE" THEN EmptyFn
                     ELSE (a[1] :> "recording")
  /\ stack = <<[fn |-> "flushCommandBuffer", ip |-> 1]>>
  /\ status = "running"
  /\ fields = EmptyFn
  /\ misused = {}
  /\ allocs = EmptyFn
  /\ bound = EmptyFn
  /\ mem_data = EmptyFn
  /\ pending = <<>>
  /\ fence_state = EmptyFn
  /\ elapsed = 0
  /\ image_layout = EmptyFn
  /\ submitted_layout = EmptyFn
  /\ descriptor = <<>>
  /\ submits = <<>>
  /\ buffer_info = EmptyFn
  /\ log = <<>>

flushCommandBufferCall == In("flushCommandBuffer") /\ Step

NextFlush ==
  \/ flushCommandBufferCall
  \/ GpuExecute
  \/ Tick

SpecFlush == InitFlush /\ [][NextFlush]_vars

(***************************************************************************)
(* C32: flushCommandBuffer with a null command buffer does nothing; with   *)
(* a command buffer it ends the recording, creates a fence, submits the    *)
(* buffer with it, waits for the fence, destroys the fence and frees the   *)
(* buffer if and only if free is set, only after the wait has returned     *)
(* and never while the buffer is pending.                                  *)
(***************************************************************************)
FlushSteps ==
  IF env.command_buffer = "VK_NULL_HANDLE" THEN <<>>
  ELSE << <<"end", env.command_buffer>>, <<"createFence", "fence@flush">>,
          <<"submit", env.command_buffer>>, <<"wait", "fence@flush">>,
          <<"destroy", "fence@flush">> >>
       \o (IF env.free THEN << <<"free", env.command_buffer>> >> ELSE <<>>)

FlushDoesWhatItSays ==
  LET whole == Append(FlushSteps, <<"return", "flushCommandBuffer">>)
  IN  /\ \/ IsPrefix(log, whole)
         \/ /\ status = "fatal"
            /\ IsPrefix(SubSeq(log, 1, Len(log) - 1), FlushSteps)
            /\ log[Len(log)][1] = "failed"
      /\ env.command_buffer = "VK_NULL_HANDLE" =>
           /\ pending = <<>> /\ submits = <<>> /\ fence_state = EmptyFn
           /\ live = {"instance", "device", "command_pool"}
      /\ env.command_buffer # "VK_NULL_HANDLE" =>
           /\ Len(submits) <= 1
           /\ env.command_buffer \notin live =>
                /\ env.free
                /\ pending = <<>>
                /\ cb_state[env.command_buffer] # "pending"
           /\ Returned("flushCommandBuffer") =>
                /\ (env.command_buffer \in live) = ~env.free
                /\ "fence@flush" \notin live
                /\ cb_state[env.command_buffer] = "executable"
                /\ misused = {}

FlushedAndFreed ==
  /\ Returned("flushCommandBuffer")
  /\ env.free
  /\ Len(Recorded("cmd_buffer")) = MaxRecorded
  /\ "cmd_buffer" \notin live

(***************************************************************************)
(* C33: no command buffer is begun again, recorded into, ended or freed    *)
(* while it is pending; the copy command buffer of the geometry uploads is *)
(* begun the second time only after the fence of its first submission has  *)
(* been waited for; every command buffer goes through begin, recording,    *)
(* end and submit in that order, with no recording after the end.          *)
(***************************************************************************)
CommandBufferOps == {"allocCmd", "begin", "cmd", "end", "submit", "free"}

\* The operations that may directly precede op on the same command buffer.
MayPrecede(op) ==
  CASE op = "allocCmd" -> {}
    [] op = "begin" -> {"allocCmd", "submit"}
    [] op \in {"cmd", "end"} -> {"begin", "cmd"}
    [] op = "submit" -> {"end"}
    [] op = "free" -> {"submit"}

IsPending(cb) == \E k \in 1..Len(pending) : pending[k].cb = cb

CommandBufferLifecycle ==
  /\ \A cb \in DOMAIN cb_state :
       cb_state[cb] = "pending" <=> IsPending(cb)
  /\ log # <<>> =>
       LET e == log[Len(log)]
           earlier == {k \in 1..(Len(log) - 1) :
                         log[k][2] = e[2] /\ log[k][1] \in CommandBufferOps}
       IN  /\ (e[1] \in CommandBufferOps /\ e[2] \in DOMAIN cb_state) =>
                /\ e[1] # "submit" => ~IsPending(e[2])
                /\ e[1] = "submit" => Len(pending) <= 1
                /\ IF earlier = {} THEN e[1] = "allocCmd"
                   ELSE LET last == CHOOSE k \in earlier : \A j \in earlier : j <= k
                        IN  log[last][1] \in MayPrecede(e[1])
                /\ (e = <<"begin", "copy_cmd@geom">> /\ Happened("submit", e[2])) =>
                     /\ Happened("wait", "fence@vtx")
                     /\ submits[Len(submits)] = e[2]
           /\ e = <<"destroy", "command_pool">> => pending = <<>>

CopyBufferReused ==
  /\ Count("begin", "copy_cmd@geom") = 2
  /\ Count("submit", "copy_cmd@geom") = 2
  /\ ~IsPending("copy_cmd@geom")

(***************************************************************************)
(* C34: every buffer or image a recorded command references (copy source   *)
(* or destination, vertex or index bind, barrier, attachment, sampled      *)
(* image) exists and has memory bound when its command buffer is           *)
(* submitted, and it and its memory stay alive until the submission's      *)
(* fence has signalled, in both branches of use_staging.                   *)
(***************************************************************************)
\* Handles of recorded commands that are neither buffers nor images.
StateHandles ==
  {"render_pass", "framebuffer", "pipeline", "pipeline_layout", "descriptor_set"}

\* The buffers and images the commands of cb reference: directly, as the
\* attachments of the framebuffer, or through the descriptor set.
ResourcesOf(cb) ==
  LET direct == UNION {cmds[cb][k].refs : k \in 1..Len(cmds[cb])}
  IN  (direct \ StateHandles)
      \cup (IF "framebuffer" \in direct
            THEN {"color_attachment.image", "depth_attachment.image"} ELSE {})
      \cup (IF "descriptor_set" \in direct
            THEN {"uniform_buffer_modelview", "texture.image"} ELSE {})

Backed(r) == r \in live /\ r \in DOMAIN bound /\ bound[r] \in live

InitTiling ==
  /\ argv \in [help : {FALSE}, use_vertex : BOOLEAN]
  /\ env \in {[memoryTypes |-> <<AllFlags>>, typeBits |-> 1, layer |-> FALSE,
               devices |-> << <<TRUE>> >>, force_linear_tiling |-> f,
               linearTilingSampled |-> s] : f \in BOOLEAN, s \in BOOLEAN}
  /\ vertices = <<1, 0>>
  /\ indices = <<0, 1>>
  /\ Start

SpecTiling == InitTiling /\ [][Next]_vars

(***************************************************************************)
(* C35: in both pipeline variants every declared vertex input attribute    *)
(* lies inside one vertex of its binding: offset + size of its format is   *)
(* at most the binding stride, so a vertex fetch never reads the next      *)
(* vertex or past the end of the vertex buffer.                            *)
(***************************************************************************)
AttributesInsideVertex ==
  Happened("create", "pipeline") =>
    LET state == fields["vertex_input_state"]
    IN  /\ state.stride = IF use_texture THEN sizeofTextureVertex
                          ELSE sizeofSimpleVertex
        /\ \A k \in 1..Len(state.attributes) :
             state.attributes[k].offset + FormatSize(state.attributes[k].format)
               <= state.stride

(***************************************************************************)
(* C36: the texture sampler has anisotropic filtering enabled only when    *)
(* the samplerAnisotropy feature is reported by the physical device and    *)
(* enabled on the logical device; when enabled maxAnisotropy is the        *)
(* device's maximum, otherwise filtering is disabled with maxAnisotropy 1. *)
(***************************************************************************)
AnisotropyOnlyIfEnabled ==
  Happened("create", "texture.sampler") =>
    LET sampler == fields["sampler"]
    IN  /\ sampler.anisotropyEnable =>
             /\ samplerAnisotropy
             /\ "samplerAnisotropy" \in fields["device_create_info"].pEnabledFeatures
             /\ sampler.maxAnisotropy = maxSamplerAnisotropy
        /\ ~sampler.anisotropyEnable => sampler.maxAnisotropy = 1

=============================================================================
